---- MODULE Spec2Model ----
(***************************************************************************)
(* State-machine model of the thread extractor of x-consensus              *)
(* (services/x_api_service.py: XAPIService) and of the URL validators of   *)
(* models/schemas.py.  Tasks are asyncio coroutines sharing one service    *)
(* instance: a step of a task runs from one await to the next, so every    *)
(* action below is the code between two suspension points.                 *)
(***************************************************************************)
EXTENDS Integers, Sequences, FiniteSets, TLC

\* ------------------------------------------------------------------ bounds
NTasks == 2
MaxCalls == 3
LibCalls == 1
MaxRefs == 1
StartTime == 100
LastAgo == 2
ResetAhead == 3
IdleGap == 6
MaxLatency == 1
ShortRetryAfter == 2
PriorUsage == 94
SearchHits == 4
TitleLen == 12
SnippetLen == 30
MainTextLen == 120
ShortHandle == 15
LongHandle == 500
ShortPoint == 40
LongPoint == 1000
MaxPoints == 3
MaxIncluded == 2
ModelConfidence == 30

\* ------------------------------------------------------- program constants
min_request_interval == 5
monthly_stop == 95
near_exhausted == 2
conservative_remaining == 10
max_retries == 3
base_delay == 1
default_retry_after == 60

\* GrokService: the literals of services/grok_service.py, by their length
search_max_results == 3
topic_cut == 100
current_news_len == 13
demo_title_len == 25
demo_snippet_len == 20
context_part_len == 4
personas_template_len == 50
meme_template_len == 202
fallback_template_len == 67
join_sep_len == 2
point_cut == 50
prompt_limit == 1024

\* sentinels: a header the response does not carry, a time that never was
NoHdr == 0 - 1
NoTime == 0 - 1

\* ----------------------------------------------------- character sequences
Lit_http == <<"h", "t", "t", "p">>
Lit_sep == <<":", "/", "/">>
Lit_twitter == <<"t", "w", "i", "t", "t", "e", "r", ".", "c", "o", "m">>
Lit_x == <<"x", ".", "c", "o", "m">>
Lit_slash == <<"/">>
Lit_status == <<"/", "s", "t", "a", "t", "u", "s", "/">>
Str_https == <<"h", "t", "t", "p", "s">>
Str_ftp == <<"f", "t", "p">>
Str_xzcom == <<"x", "z", "c", "o", "m">>
Str_handle == <<"a", "l", "_", "1">>
Str_a_b == <<"a", "-", "b">>
Str_42 == <<"4", "2">>
Str_4a == <<"4", "a">>
Str_tail == <<"/", "p">>
Str_junk == <<"z">>

Digits == {"0", "1", "2", "3", "4", "5", "6", "7", "8", "9"}
WordChars ==
    Digits \cup {"_", "a", "b", "c", "e", "f", "h", "i", "l", "m", "o", "p",
                 "r", "s", "t", "u", "w", "x", "z"}

\* ------------------------------------------------- the thread-URL pattern
\* lit occurs in s at index i
LitAt(s, i, lit) ==
    /\ i >= 1
    /\ i + Len(lit) - 1 <= Len(s)
    /\ \A k \in 1..Len(lit) : s[i + k - 1] = lit[k]

\* first index after the longest run of characters of class C starting at i
RECURSIVE RunEnd(_, _, _)
RunEnd(s, i, C) ==
    IF i <= Len(s) /\ s[i] \in C THEN RunEnd(s, i + 1, C) ELSE i

NoMatch == [ok |-> FALSE, group2 |-> <<>>]

\* /\w+/status/(\d+) anchored at index i.  \w+ and \d+ are greedy; a shorter
\* \w+ cannot be followed by "/" (its next character is a word character), so
\* backtracking finds nothing the longest run does not.
TailAt(s, i) ==
    IF ~LitAt(s, i, Lit_slash) THEN NoMatch
    ELSE LET w == RunEnd(s, i + 1, WordChars) IN
         IF w = i + 1 \/ ~LitAt(s, w, Lit_status) THEN NoMatch
         ELSE LET d == w + Len(Lit_status)
                  e == RunEnd(s, d, Digits) IN
              IF e = d THEN NoMatch
              ELSE [ok |-> TRUE, group2 |-> SubSeq(s, d, e - 1)]

\* (twitter\.com|x\.com) anchored at index i, then the tail
HostAt(s, i) ==
    IF LitAt(s, i, Lit_twitter) THEN TailAt(s, i + Len(Lit_twitter))
    ELSE IF LitAt(s, i, Lit_x) THEN TailAt(s, i + Len(Lit_x))
    ELSE NoMatch

\* https?://(twitter\.com|x\.com)/\w+/status/(\d+) anchored at index i
PatternAt(s, i) ==
    IF ~LitAt(s, i, Lit_http) THEN NoMatch
    ELSE LET j == i + Len(Lit_http)
             withS == IF j <= Len(s) /\ s[j] = "s" /\ LitAt(s, j + 1, Lit_sep)
                      THEN HostAt(s, j + 1 + Len(Lit_sep)) ELSE NoMatch
             noS == IF LitAt(s, j, Lit_sep)
                    THEN HostAt(s, j + Len(Lit_sep)) ELSE NoMatch IN
         IF withS.ok THEN withS ELSE noS

\* re.search: the leftmost index at which the pattern matches
re_search(s) ==
    LET hits == {i \in 1..Len(s) : PatternAt(s, i).ok} IN
    IF hits = {} THEN NoMatch
    ELSE PatternAt(s, CHOOSE i \in hits : \A k \in hits : i <= k)

\* re.match: the pattern matches at the start of the string
re_match(s) == PatternAt(s, 1)

\* ------------------------------------------------------------- exceptions
Exc(type, status, msg) == [type |-> type, status |-> status, msg |-> msg]
NoExc == Exc("none", 0, <<>>)
Msg_invalid_url == "Invalid X/Twitter URL format"
Msg_invalid_thread_url == "Invalid X/Twitter thread URL format"
Msg_monthly == "Monthly post limit nearly reached. Please wait for reset or upgrade your plan."
Msg_rate_limited == "Rate limit exceeded. Please try again later."
Msg_no_data == "No data found in API response"
Msg_not_json == "Expecting value"
Msg_transport == "transport error"
Pre_extract == "Failed to extract thread: "
Pre_text == "Failed to extract thread text: "
Pre_tweet == "Failed to fetch tweet: "
Pre_replies == "Failed to fetch replies: "

\* raise Exception(f"<prefix>{e}")
Wrap(prefix, e) == Exc("Exception", 0, <<prefix>> \o e.msg)
\* the message the innermost raise gave
Cause(e) == IF e.msg = <<>> THEN "" ELSE e.msg[Len(e.msg)]

\* XAPIService.extract_thread_id
extract_thread_id_mut(url) ==
    [raised |-> FALSE, exc |-> NoExc,
     value |-> IF re_search(url).ok THEN re_search(url).group2 ELSE <<"0">>]
extract_thread_id(url) ==
    LET m == re_search(url) IN
    IF ~m.ok
    THEN [raised |-> TRUE, exc |-> Exc("ValueError", 0, <<Msg_invalid_url>>),
          value |-> <<>>]
    ELSE [raised |-> FALSE, exc |-> NoExc, value |-> m.group2]

\* ThreadRequest.validate_twitter_url
ThreadRequest_validate_twitter_url(v) ==
    IF ~re_match(v).ok
    THEN [raised |-> TRUE, exc |-> Exc("ValueError", 0, <<Msg_invalid_thread_url>>),
          value |-> <<>>]
    ELSE [raised |-> FALSE, exc |-> NoExc, value |-> v]

\* ThreadExtractionRequest.validate_twitter_url
ThreadExtractionRequest_validate_twitter_url(v) ==
    IF ~re_match(v).ok
    THEN [raised |-> TRUE, exc |-> Exc("ValueError", 0, <<Msg_invalid_thread_url>>),
          value |-> <<>>]
    ELSE [raised |-> FALSE, exc |-> NoExc, value |-> v]

\* ------------------------------------------------------- input strings
Prefixes == {<<>>, Str_junk}
Schemes == {Lit_http, Str_https, Str_ftp}
Hosts == {Lit_x, Lit_twitter, Str_xzcom}
Handles == {Str_handle, Str_a_b, <<>>}
Ids == {Str_42, Str_4a, <<>>}
Suffixes == {<<>>, Str_tail}

MkUrl(pre, sch, host, handle, id, suf) ==
    pre \o sch \o Lit_sep \o host \o Lit_slash \o handle \o Lit_status \o id \o suf

UrlUniverse ==
    {MkUrl(pre, sch, host, handle, id, suf) :
        pre \in Prefixes, sch \in Schemes, host \in Hosts,
        handle \in Handles, id \in Ids, suf \in Suffixes}

\* a string that is exactly a thread URL: scheme://host/<handle>/status/<id>
\* with a non-empty handle of word characters and a non-empty numeric id
IsThreadUrl(s) ==
    \E sch \in {Lit_http, Str_https}, host \in {Lit_x, Lit_twitter} :
        LET head == sch \o Lit_sep \o host \o Lit_slash
            w == RunEnd(s, Len(head) + 1, WordChars)
            d == w + Len(Lit_status)
        IN  /\ LitAt(s, 1, head)
            /\ w > Len(head) + 1
            /\ LitAt(s, w, Lit_status)
            /\ d <= Len(s)
            /\ RunEnd(s, d, Digits) = Len(s) + 1
\* the numeric id of a thread URL: its characters after the last "/"
RECURSIVE LastSlash(_, _)
LastSlash(s, i) == IF i = 0 \/ s[i] = "/" THEN i ELSE LastSlash(s, i - 1)
UrlId(s) == SubSeq(s, LastSlash(s, Len(s)) + 1, Len(s))

Url_good == MkUrl(<<>>, Str_https, Lit_x, Str_handle, Str_42, <<>>)
Url_bad == MkUrl(<<>>, Str_ftp, Lit_x, Str_handle, Str_42, <<>>)
Url_embedded == MkUrl(Str_junk, Str_https, Lit_x, Str_handle, Str_42, <<>>)
UrlInputs == {Url_good, Url_bad}

\* ------------------------------------------------------------------ state
VARIABLES
    now,                    \* the wall clock, time.time(), in seconds
    rate_limit_remaining,   \* XAPIService.rate_limit_remaining
    rate_limit_reset_time,  \* XAPIService.rate_limit_reset_time
    last_request_time,      \* XAPIService.last_request_time
    monthly_usage,          \* XAPIService.monthly_usage
    task,                   \* the coroutines running on the service instance
    calls,                  \* invocations started so far
    mock,                   \* answers the upstream is scripted to give next
    scenario,               \* the script the upstream started with
    successes,              \* upstream requests answered with a 2xx status
    prev_issue,             \* time and operation of the latest upstream request
    last_gap,               \* distance between the two latest upstream requests
    peak,                   \* largest number of invocations in flight at once
    probe,                  \* an input under test and what the parsers made of it
    pipe                    \* one request on its way through an orchestrator

svc == <<rate_limit_remaining, rate_limit_reset_time, last_request_time, monthly_usage>>
ghost == <<successes, prev_issue, last_gap, peak>>
vars == <<now, svc, task, calls, mock, scenario, ghost, probe, pipe>>

Tasks == 1..NTasks
Ops == {"extract", "text_only", "get_tweet", "get_replies", "usage_stats"}

\* QuotaState: the four fields of the service instance, as one value
Quota(mu, rem, reset, last) ==
    [monthly_usage |-> mu, rate_limit_remaining |-> rem,
     rate_limit_reset_time |-> reset, last_request_time |-> last]
Q == Quota(monthly_usage, rate_limit_remaining, rate_limit_reset_time,
           last_request_time)
\* XAPIService.__init__
FreshQuota == Quota(0, conservative_remaining, 0, 0)

Val(tag, id, n) == [tag |-> tag, id |-> id, n |-> n]
NoVal == Val("none", <<>>, 0)
Res(kind, val, exc) == [kind |-> kind, val |-> val, exc |-> exc]
NoRes == Res("none", NoVal, NoExc)

\* the latest answer of the upstream to the coroutine: its status, the time it
\* came and its retry-after header
Last(status, at, retry_after) == [status |-> status, at |-> at, retry_after |-> retry_after]
NoLast == Last(0 - 1, 0 - 1, 0 - 1)

\* delays: the sleeps of the except clauses of _make_api_request_with_retry
\* in the call of the helper that is running or ran last
NoTask ==
    [pc |-> "idle", op |-> "none", inner |-> FALSE, url |-> <<>>,
     thread_id |-> <<>>, ct |-> 0, wake |-> 0, attempt |-> 0,
     reqs |-> 0, sleeps |-> 0, incs |-> 0, ok2xx |-> 0, slept |-> 0,
     q0 |-> FreshQuota, q1 |-> FreshQuota, res |-> NoRes,
     last |-> NoLast, delays |-> <<>>]

Active(tk) == tk.pc \notin {"idle", "done"}
\* the request goes through _make_api_request_with_retry
ViaRetry(tk) == tk.op \in {"get_tweet", "get_replies"} \/ tk.inner

\* what one step of a coroutine leaves behind
W(tk, q, issued) == [tk |-> tk, q |-> q, issued |-> issued]

Finish(tk, q, res) == W([tk EXCEPT !.pc = "done", !.res = res, !.q1 = q], q, FALSE)

\* await asyncio.sleep(d), entered at time nowv
Sleep(tk, pc, nowv, d) ==
    [tk EXCEPT !.pc = pc, !.wake = nowv + d, !.sleeps = @ + 1, !.slept = @ + d,
               !.delays = IF pc = "sleep_retry" THEN Append(@, d) ELSE @]

\* ------------------------------------------------- _wait_for_rate_limit
\* lines 58-61: the pause that keeps two requests min_request_interval apart
MinIntervalWait_mut(current_time, last) == 0
MinIntervalWait(current_time, last) ==
    LET time_since_last == current_time - last IN
    IF time_since_last < min_request_interval
    THEN min_request_interval - time_since_last
    ELSE 0

\* line 47: the monthly ceiling
MonthlyLimitReached_mut(mu) == mu > monthly_stop
MonthlyLimitReached(mu) == mu >= monthly_stop

\* line 51: the short window is nearly used up and its reset lies ahead
WindowExhausted_mut(q, current_time) == FALSE
WindowExhausted(q, current_time) ==
    /\ q.rate_limit_reset_time > current_time
    /\ q.rate_limit_remaining <= near_exhausted

\* line 63 and the request that follows it with no await in between
Issue(tk, q, nowv) ==
    W([tk EXCEPT !.pc = "request", !.reqs = @ + 1],
      [q EXCEPT !.last_request_time = nowv], TRUE)

\* lines 57-63, entered with the current_time read on line 44
MinIntervalPhase(tk, q, nowv) ==
    LET wait_time == MinIntervalWait(tk.ct, q.last_request_time) IN
    IF wait_time > 0
    THEN W(Sleep(tk, "sleep_min", nowv, wait_time), q, FALSE)
    ELSE Issue(tk, q, nowv)

\* --------------------------------------------- _update_rate_limit_info
update_rate_limit_info_mut(q, r) ==
    [q EXCEPT !.monthly_usage = @ + 2]
update_rate_limit_info(q, r) ==
    [q EXCEPT
        !.rate_limit_remaining = IF r.remaining # NoHdr THEN r.remaining ELSE @,
        !.rate_limit_reset_time = IF r.reset # NoHdr THEN r.reset ELSE @,
        !.monthly_usage = @ + 1]

\* --------------------------------------------------- upstream responses
\* status 0 stands for a timeout or transport error (no HTTP response)
Resp(status, body, remaining, reset, retry_after, nrefs, has_main) ==
    [status |-> status, body |-> body, remaining |-> remaining, reset |-> reset,
     retry_after |-> retry_after, nrefs |-> nrefs, has_main |-> has_main]

Bodies == {"data", "nodata", "notjson"}
ErrorStatuses == {404, 401, 500}

\* x-rate-limit-remaining / x-rate-limit-reset as the upstream may send them
RateHeaders(nowv) ==
    {<<NoHdr, NoHdr>>, <<near_exhausted, nowv + ResetAhead>>,
     <<conservative_remaining - 1, nowv + ResetAhead>>}

Responses(tk, nowv) ==
    {Resp(200, b, h[1], h[2], NoHdr, n, m) :
        b \in Bodies, h \in RateHeaders(nowv),
        n \in (IF tk.op = "extract" THEN 0..MaxRefs ELSE {0}),
        m \in (IF tk.op = "text_only" /\ ~tk.inner THEN BOOLEAN ELSE {FALSE})}
    \cup {Resp(429, "none", NoHdr, NoHdr, ra, 0, FALSE) : ra \in {NoHdr, ShortRetryAfter}}
    \cup {Resp(st, "none", NoHdr, NoHdr, NoHdr, 0, FALSE) : st \in ErrorStatuses \cup {0}}

\* the body only matters where the code reads it
Relevant(tk, r) ==
    /\ r.status = 200 /\ r.body # "data" => r.nrefs = 0 /\ ~r.has_main

StatusMsg(st) ==
    CASE st = 429 -> "Client error '429 Too Many Requests' for url"
      [] st = 404 -> "Client error '404 Not Found' for url"
      [] st = 401 -> "Client error '401 Unauthorized' for url"
      [] OTHER -> "Server error '500 Internal Server Error' for url"

\* response.raise_for_status(): the exception a response makes it raise
HTTPStatusError(r) == Exc("HTTPStatusError", r.status, <<StatusMsg(r.status)>>)
TransportError == Exc("TransportError", 0, <<Msg_transport>>)
JSONDecodeError == Exc("JSONDecodeError", 0, <<Msg_not_json>>)

\* ------------------------------------------ how each operation ends
\* the except clauses of get_tweet_by_id (lines 346-355)
get_tweet_by_id_except_mut(tk, q, e) == Res("err", NoVal, Wrap(Pre_tweet, e))
get_tweet_by_id_except(tk, q, e) ==
    IF e.type = "HTTPStatusError" /\ e.status = 404
    THEN Res("ok", Val("None", <<>>, 0), NoExc)
    ELSE Res("err", NoVal, Wrap(Pre_tweet, e))

\* the except clauses of get_thread_replies (lines 414-423)
get_thread_replies_except(tk, q, e) ==
    IF e.type = "HTTPStatusError" /\ e.status = 404
    THEN Res("ok", Val("list", <<>>, 0), NoExc)
    ELSE Res("err", NoVal, Wrap(Pre_replies, e))

\* get_thread_text_only once get_tweet_by_id has come back (lines 178-188)
text_only_after_tweet(tk, inner_res) ==
    IF inner_res.kind = "err"
    THEN Res("err", NoVal, Wrap(Pre_text, inner_res.exc))
    ELSE Res("ok", Val("texts", tk.thread_id, 0), NoExc)

\* an exception leaves the body of the operation: its except clauses decide
OpRaise(tk, q, e) ==
    CASE tk.op = "extract" ->
            Finish(tk, q, Res("err", NoVal, Wrap(Pre_extract, e)))
      [] tk.op = "text_only" /\ ~tk.inner ->
            Finish(tk, q, Res("err", NoVal, Wrap(Pre_text, e)))
      [] tk.op = "text_only" /\ tk.inner ->
            Finish(tk, q, text_only_after_tweet(tk, get_tweet_by_id_except(tk, q, e)))
      [] tk.op = "get_tweet" ->
            Finish(tk, q, get_tweet_by_id_except(tk, q, e))
      [] OTHER ->
            Finish(tk, q, get_thread_replies_except(tk, q, e))

\* lines 243-244: float(e.response.headers.get('retry-after', '60'))
retry_after_wait_mut(retry_after) == 0
retry_after_wait(retry_after) ==
    IF retry_after = NoHdr THEN default_retry_after ELSE retry_after

\* the except clauses of _make_api_request_with_retry (lines 238-276)
RetryCatch_mut(tk, q, nowv, e, retry_after) ==
    IF tk.attempt < max_retries
    THEN W(Sleep(tk, "sleep_retry", nowv, base_delay), q, FALSE)
    ELSE OpRaise(tk, q, e)
RetryCatch(tk, q, nowv, e, retry_after) ==
    IF e.type = "HTTPStatusError"
    THEN IF e.status = 429
         THEN IF tk.attempt < max_retries - 1
              THEN W(Sleep(tk, "sleep_retry", nowv, retry_after_wait(retry_after)),
                     q, FALSE)
              ELSE OpRaise(tk, q, Exc("Exception", 0, <<Msg_rate_limited>>))
         ELSE OpRaise(tk, q, e)
    ELSE IF tk.attempt < max_retries - 1
         THEN W(Sleep(tk, "sleep_retry", nowv, base_delay * (2 ^ tk.attempt)),
                q, FALSE)
         ELSE OpRaise(tk, q, e)

\* an exception raised at the request or at the pre-flight check
Raise_mut(tk, q, nowv, e, retry_after) == OpRaise(tk, q, e)
Raise(tk, q, nowv, e, retry_after) ==
    IF ViaRetry(tk) THEN RetryCatch(tk, q, nowv, e, retry_after)
    ELSE OpRaise(tk, q, e)

\* _wait_for_rate_limit from its first line to its first await, or through
\* line 63 and into the request when it does not sleep (lines 42-63)
wait_for_rate_limit(tk0, q, nowv) ==
    LET tk == [tk0 EXCEPT !.ct = nowv] IN
    IF MonthlyLimitReached(q.monthly_usage)
    THEN Raise(tk, q, nowv, Exc("Exception", 0, <<Msg_monthly>>), NoHdr)
    ELSE IF WindowExhausted(q, nowv)
    THEN W(Sleep(tk, "sleep_rl", nowv, q.rate_limit_reset_time - nowv + 1), q, FALSE)
    ELSE MinIntervalPhase(tk, q, nowv)

\* lines 54-63 after the wait for the window reset
after_window_sleep_mut(tk, q, nowv) ==
    MinIntervalPhase(tk, [q EXCEPT !.rate_limit_remaining = conservative_remaining,
                                   !.rate_limit_reset_time = 0], nowv)
after_window_sleep(tk, q, nowv) ==
    MinIntervalPhase(tk, [q EXCEPT !.rate_limit_remaining = conservative_remaining],
                     nowv)

\* the response of the single request of extract_thread_optimized
\* (lines 446-553)
extract_on_response(tk, q, r, nowv) ==
    IF r.status = 0 THEN OpRaise(tk, q, TransportError)
    ELSE IF r.status # 200 THEN OpRaise(tk, q, HTTPStatusError(r))
    ELSE IF r.body = "notjson" THEN OpRaise(tk, q, JSONDecodeError)
    ELSE LET q2 == update_rate_limit_info(q, r)
             tk2 == [tk EXCEPT !.incs = @ + (q2.monthly_usage - q.monthly_usage)] IN
         IF r.body = "nodata"
         THEN OpRaise(tk2, q2, Exc("Exception", 0, <<Msg_no_data>>))
         ELSE Finish(tk2, q2,
                     Res("ok", Val("ThreadData", tk.thread_id, 1 + r.nrefs), NoExc))

\* the response of the search request of get_thread_text_only (lines 158-188)
text_only_on_response(tk, q, r, nowv) ==
    IF r.status = 0 THEN OpRaise(tk, q, TransportError)
    ELSE IF r.status # 200 THEN OpRaise(tk, q, HTTPStatusError(r))
    ELSE IF r.body = "notjson" THEN OpRaise(tk, q, JSONDecodeError)
    ELSE LET q2 == update_rate_limit_info(q, r)
             tk2 == [tk EXCEPT !.incs = @ + (q2.monthly_usage - q.monthly_usage)] IN
         IF r.body = "data" /\ r.has_main
         THEN Finish(tk2, q2, Res("ok", Val("texts", tk.thread_id, 0), NoExc))
         ELSE wait_for_rate_limit([tk2 EXCEPT !.inner = TRUE, !.attempt = 0,
                                              !.delays = <<>>], q2, nowv)

\* the response of a request made by _make_api_request_with_retry, and what
\* its caller does with the response returned (lines 212-236, 292-344, 373-412)
retry_on_response_mut(tk, q, r, nowv) ==
    IF r.status = 0 THEN RetryCatch(tk, q, nowv, TransportError, NoHdr)
    ELSE IF r.status # 200
    THEN RetryCatch(tk, [q EXCEPT !.monthly_usage = @ + 1], nowv,
                    HTTPStatusError(r), r.retry_after)
    ELSE LET q2 == [q EXCEPT !.monthly_usage = @ + 1 + tk.attempt] IN
         Finish(tk, q2, Res("ok", Val("None", tk.thread_id, 0), NoExc))
retry_on_response(tk, q, r, nowv) ==
    IF r.status = 0 THEN RetryCatch(tk, q, nowv, TransportError, NoHdr)
    ELSE IF r.status # 200 THEN RetryCatch(tk, q, nowv, HTTPStatusError(r), r.retry_after)
    ELSE LET q2 == update_rate_limit_info(q, r)
             tk2 == [tk EXCEPT !.incs = @ + (q2.monthly_usage - q.monthly_usage)] IN
         IF r.body = "notjson" THEN OpRaise(tk2, q2, JSONDecodeError)
         ELSE IF tk.op = "text_only"
         THEN Finish(tk2, q2, text_only_after_tweet(tk2,
                        Res("ok", Val(IF r.body = "data" THEN "Tweet" ELSE "None",
                                      <<>>, 0), NoExc)))
         ELSE IF tk.op = "get_tweet"
         THEN Finish(tk2, q2, Res("ok", Val(IF r.body = "data" THEN "Tweet" ELSE "None",
                                            tk.thread_id, 0), NoExc))
         ELSE Finish(tk2, q2, Res("ok", Val("list", tk.thread_id,
                                            IF r.body = "data" THEN 1 ELSE 0), NoExc))

on_response(tk, q, r, nowv) ==
    LET tk1 == [tk EXCEPT !.ok2xx = @ + (IF r.status = 200 THEN 1 ELSE 0),
                          !.last = Last(r.status, nowv, r.retry_after)] IN
    IF ViaRetry(tk) THEN retry_on_response(tk1, q, r, nowv)
    ELSE IF tk.op = "extract" THEN extract_on_response(tk1, q, r, nowv)
    ELSE text_only_on_response(tk1, q, r, nowv)

\* XAPIService.get_api_usage_stats
get_api_usage_stats(q) ==
    [monthly_usage |-> q.monthly_usage, monthly_limit |-> 100,
     rate_limit_remaining |-> q.rate_limit_remaining,
     rate_limit_reset_time |-> q.rate_limit_reset_time]

\* an invocation from its call to its first await
begin(tk, q, nowv) ==
    IF tk.op = "usage_stats"
    THEN Finish(tk, q, Res("ok", Val("stats", <<>>, get_api_usage_stats(q).monthly_usage),
                           NoExc))
    ELSE IF tk.op \in {"extract", "text_only"}
    THEN LET id == extract_thread_id(tk.url) IN
         IF id.raised THEN OpRaise(tk, q, id.exc)
         ELSE wait_for_rate_limit([tk EXCEPT !.thread_id = id.value], q, nowv)
    ELSE wait_for_rate_limit([tk EXCEPT !.thread_id = Str_42], q, nowv)

\* a coroutine resumes from asyncio.sleep
resume(tk, q, nowv) ==
    CASE tk.pc = "sleep_rl" -> after_window_sleep(tk, q, nowv)
      [] tk.pc = "sleep_min" -> Issue(tk, q, nowv)
      [] OTHER -> wait_for_rate_limit([tk EXCEPT !.attempt = @ + 1], q, nowv)

\* ------------------------------------------- error messages of the routes
Msg_too_few == "Thread must have at least 2 tweets for meaningful analysis"
Msg_invalid_key == "Invalid API key"
Msg_no_response == "No response from Grok API"
Msg_key_message == "'message'"
Msg_key_title == "'title'"
Msg_parse_json == "Failed to parse Grok response as JSON"
Msg_no_json == "No JSON found in response"
Msg_missing_field == "Missing required field: consensus"
Msg_validation == "validation error for ConsensusResponse"
Msg_none_strip == "'NoneType' object has no attribute 'strip'"
Msg_index == "list index out of range"
Pre_api_error == "API error: "
Pre_grok == "Failed to analyze with Grok: "
Pre_invalid_format == "Invalid response format: missing "
Pre_parse == "Failed to parse analysis results: "
Pre_analyze == "Failed to analyze thread: "

\* The phrases the routes look for in str(e) are runs of whole words in every
\* message of the program, so a message is searched word by word.  The parts
\* in which a word of one of the phrases occurs are spelled out; any other
\* part is one word.
Words(part) ==
    CASE part = Msg_rate_limited ->
            <<"Rate", "limit", "exceeded", ".", "Please", "try", "again", "later", ".">>
      [] part = Msg_invalid_key -> <<"Invalid", "API", "key">>
      [] part = StatusMsg(404) ->
            <<"Client", "error", "'", "404", "Not", "Found", "'", "for", "url">>
      [] part = StatusMsg(401) ->
            <<"Client", "error", "'", "401", "Unauthorized", "'", "for", "url">>
      [] part = Msg_no_data ->
            <<"No", "data", "found", "in", "API", "response">>
      [] part = Msg_no_json ->
            <<"No", "JSON", "found", "in", "response">>
      [] part = Msg_monthly ->
            <<"Monthly", "post", "limit", "nearly", "reached", ".", "Please", "wait",
              "for", "reset", "or", "upgrade", "your", "plan", ".">>
      [] part = Msg_invalid_url -> <<"Invalid", "X/Twitter", "URL", "format">>
      [] OTHER -> <<part>>

\* str(e)
RECURSIVE Text(_)
Text(msg) == IF msg = <<>> THEN <<>> ELSE Words(Head(msg)) \o Text(Tail(msg))

\* str.lower(), word by word
LowerWord_mut(w) == w
LowerWord(w) ==
    CASE w = "Not" -> "not"
      [] w = "Found" -> "found"
      [] w = "No" -> "no"
      [] w = "Rate" -> "rate"
      [] w = "Please" -> "please"
      [] w = "Invalid" -> "invalid"
      [] w = "API" -> "api"
      [] w = "JSON" -> "json"
      [] w = "URL" -> "url"
      [] w = "X/Twitter" -> "x/twitter"
      [] w = "Client" -> "client"
      [] w = "Unauthorized" -> "unauthorized"
      [] w = "Monthly" -> "monthly"
      [] OTHER -> w
Lower(text) == [i \in DOMAIN text |-> LowerWord(text[i])]

\* phrase in text
Contains(text, phrase) == \E i \in 1..Len(text) : LitAt(text, i, phrase)

Phrase_rate_limit == <<"Rate", "limit", "exceeded">>
Phrase_not_found == <<"not", "found">>
Phrase_private == <<"private">>
Phrase_invalid_key == <<"Invalid", "API", "key">>
Phrase_unauthorized == <<"Unauthorized">>

\* api/main.py lines 158-166 and 240-248: the status chosen from the message
status_code_for(error_message) ==
    IF Contains(error_message, Phrase_rate_limit) THEN 429
    ELSE IF Contains(Lower(error_message), Phrase_not_found)
            \/ Contains(Lower(error_message), Phrase_private) THEN 404
    ELSE IF Contains(error_message, Phrase_invalid_key)
            \/ Contains(error_message, Phrase_unauthorized) THEN 401
    ELSE 500

\* the reply of a route: HTTP status, success flag of the body, error carried
Reply(status, success, exc) == [status |-> status, success |-> success, exc |-> exc]
NoReply == Reply(0, FALSE, NoExc)

\* the except clauses of the two routes of api/main.py (lines 148-174, 230-260)
route_except(e) ==
    IF e.type = "ValueError" THEN Reply(400, FALSE, e)
    ELSE Reply(status_code_for(Text(e.msg)), FALSE, e)

\* the except clause of handler.analyze_thread_async; do_POST has sent status
\* 200 before the request is read (api/analyze-thread.py lines 33, 119-124)
serverless_except(e) == Reply(200, FALSE, e)

\* raise HTTPException(status_code=400, detail=...) of api/main.py line 198
HTTPException_too_few == Exc("HTTPException", 400, <<Msg_too_few>>)
min_tweets == 2

\* ---------------------------------------------------------- GrokService
\* Texts the pipeline only measures, joins or cuts are modelled by their
\* length; NoLen stands for None.
NoLen == 0 - 1
Min(a, b) == IF a <= b THEN a ELSE b

\* a response of the chat-completions endpoint to the live-search request;
\* status 0 stands for a timeout or transport error
SResp(status, shape, n, title, snippet) ==
    [status |-> status, shape |-> shape, n |-> n, title |-> title, snippet |-> snippet]
\* a LiveSearchResult, with where it came from
LiveSearchResult(title, snippet, src) == [title |-> title, snippet |-> snippet, src |-> src]

\* search_query of analyze_thread (lines 439-440)
search_query_len(main_text) == current_news_len + Min(main_text, topic_cut)

\* GrokService.grok_live_search (lines 198-245); it returns on every path
grok_live_search(r, query, max_results) ==
    IF r.status # 200 THEN <<>>
    ELSE CASE r.shape \in {"not_json", "no_choices", "null_content", "bad_items"} -> <<>>
           [] r.shape = "no_brace" -> <<>>
           [] r.shape = "bad_json" ->
                <<LiveSearchResult(demo_title_len, demo_snippet_len + query, "demo")>>
           [] OTHER ->
                [i \in 1..Min(r.n, max_results) |->
                    LiveSearchResult(r.title, r.snippet, "parsed")]

\* len("\n".join(context_parts)) of analyze_thread (lines 447-452)
RECURSIVE JoinLen(_, _)
JoinLen(parts, sep) ==
    IF parts = <<>> THEN 0
    ELSE IF Len(parts) = 1 THEN Head(parts)
    ELSE Head(parts) + sep + JoinLen(Tail(parts), sep)
live_context_len(live_results) ==
    JoinLen([i \in DOMAIN live_results |->
                context_part_len + live_results[i].title + live_results[i].snippet], 1)

\* line 481: live_context if live_context else None
enhanced_context_mut(live_context) == live_context
enhanced_context(live_context) == IF live_context > 0 THEN live_context ELSE NoLen

\* a response of the chat-completions endpoint to the analysis request
CResp(status, shape, content) == [status |-> status, shape |-> shape, content |-> content]
\* the text of the first choice, by what parse_grok_response finds in it
\* confidence_score: the value of that key in hundredths, NoScore without the key
NoScore == 0 - 1
Content(kind, ua, ub, consensus, confidence_score) ==
    [kind |-> kind, ua |-> ua, ub |-> ub, consensus |-> consensus,
     confidence_score |-> confidence_score]
NoContent == Content("none", NoLen, NoLen, <<>>, NoScore)

Ret(raised, exc, value) == [raised |-> raised, exc |-> exc, value |-> value]

\* the except httpx.HTTPStatusError clause of call_grok_api (lines 132-139)
grok_status_error_mut(r) == Wrap(Pre_api_error, HTTPStatusError(r))
grok_status_error(r) ==
    IF r.status = 429 THEN Exc("Exception", 0, <<Msg_rate_limited>>)
    ELSE IF r.status = 401 THEN Exc("Exception", 0, <<Msg_invalid_key>>)
    ELSE Wrap(Pre_api_error, HTTPStatusError(r))

\* GrokService.call_grok_api (lines 115-142)
call_grok_api(r) ==
    IF r.status = 0 THEN Ret(TRUE, Wrap(Pre_grok, TransportError), NoContent)
    ELSE IF r.status # 200 THEN Ret(TRUE, grok_status_error(r), NoContent)
    ELSE CASE r.shape = "not_json" -> Ret(TRUE, Wrap(Pre_grok, JSONDecodeError), NoContent)
           [] r.shape \in {"no_choices", "empty_choices"} ->
                Ret(TRUE, Wrap(Pre_grok, Exc("Exception", 0, <<Msg_no_response>>)), NoContent)
           [] r.shape = "no_message" ->
                Ret(TRUE, Wrap(Pre_grok, Exc("KeyError", 0, <<Msg_key_message>>)), NoContent)
           [] OTHER -> Ret(FALSE, NoExc, r.content)

\* the keys of the metadata parse_grok_response builds (lines 413-417), those
\* analyze_thread writes (lines 485-491) and those the route /api/analyze-thread
\* writes (api/main.py lines 209-222)
parse_metadata == {"analysis_method", "tweet_count", "meme_suggestion"}
analyze_metadata ==
    {"analysis_method", "live_search_enabled", "meme_generated", "steps_completed",
     "processing_time_seconds"}
route_metadata ==
    {"thread_url", "thread_id", "total_tweets", "analysis_timestamp",
     "api_usage_stats", "api_calls_this_analysis"}
\* dict.update, on the keys of the dictionary
metadata_update_mut(md, keys) == keys
metadata_update(md, keys) == md \cup keys

\* data.get("confidence_score", 0.8) (line 404), in hundredths
default_confidence == 80
parsed_confidence(c) ==
    IF c.confidence_score = NoScore THEN default_confidence ELSE c.confidence_score
\* the confidence_score analyze_thread assigns (line 484), in hundredths
display_confidence == 85
final_confidence_mut(parsed) == parsed
final_confidence(parsed) == display_confidence

\* the ConsensusResponse parse_grok_response builds (lines 391-418)
ConsensusResponse(c) ==
    [success |-> TRUE, ua |-> c.ua, ub |-> c.ub, consensus |-> c.consensus,
     confidence_score |-> parsed_confidence(c),
     live_search_results |-> <<>>, enhanced_context |-> NoLen, peace_meme_url |-> "None",
     metadata |-> parse_metadata]
NoConsensus == ConsensusResponse(NoContent)

\* GrokService.parse_grok_response (lines 361-429)
parse_grok_response_mut(c) == Ret(FALSE, NoExc, ConsensusResponse(c))
parse_grok_response(c) ==
    CASE c.kind = "valid" -> Ret(FALSE, NoExc, ConsensusResponse(c))
      [] c.kind = "bad_json" -> Ret(TRUE, Exc("Exception", 0, <<Msg_parse_json>>), NoConsensus)
      [] c.kind = "missing_key" ->
            Ret(TRUE, Wrap(Pre_invalid_format, Exc("KeyError", 0, <<Msg_key_title>>)),
                NoConsensus)
      [] c.kind = "no_json" ->
            Ret(TRUE, Wrap(Pre_parse, Exc("ValueError", 0, <<Msg_no_json>>)), NoConsensus)
      [] c.kind = "missing_field" ->
            Ret(TRUE, Wrap(Pre_parse, Exc("ValueError", 0, <<Msg_missing_field>>)),
                NoConsensus)
      [] c.kind = "null" ->
            Ret(TRUE, Wrap(Pre_parse, Exc("AttributeError", 0, <<Msg_none_strip>>)),
                NoConsensus)
      [] OTHER ->
            Ret(TRUE, Wrap(Pre_parse, Exc("ValidationError", 0, <<Msg_validation>>)),
                NoConsensus)

\* generate_peace_meme up to the call of the image backend (lines 251-266):
\* the length of the prompt, or the exception building it raises
personas_len(ua, ub) ==
    IF ua > 0 /\ ub > 0 THEN personas_template_len + ua + ub ELSE 0
meme_prompt(cr) ==
    LET personas == personas_len(cr.ua, cr.ub)
        shared_values == JoinLen(SubSeq(cr.consensus, 1, Min(2, Len(cr.consensus))),
                                 join_sep_len)
        first == meme_template_len + personas + shared_values
    IN  IF first <= prompt_limit THEN Ret(FALSE, NoExc, first)
        ELSE IF cr.consensus = <<>>
        THEN Ret(TRUE, Exc("IndexError", 0, <<Msg_index>>), 0)
        ELSE Ret(FALSE, NoExc,
                 fallback_template_len + personas + Min(cr.consensus[1], point_cut))

\* the call of the image backend and what is made of its answer (lines 273-290)
ImageOutcomes == {"url", "no_url", "exception"}
image_sample(img) == IF img = "url" THEN "url" ELSE "None"

\* the except clause of GrokService.analyze_thread (lines 503-506)
analyze_thread_except_mut(e) == e
analyze_thread_except(e) == Wrap(Pre_analyze, e)

\* ------------------------------------------ a request in an orchestrator
\* the FastAPI routes /api/analyze-thread and /api/extract-thread of
\* api/main.py and the serverless handler of api/analyze-thread.py
Orchestrators == {"main_analyze", "main_extract", "serverless"}

AResult(kind, value, exc) == [kind |-> kind, value |-> value, exc |-> exc]
NoAResult == AResult("none", NoConsensus, NoExc)
NoSResp == SResp(0, "unsent", 0, 0, 0)
NoCResp == CResp(0, "unsent", NoContent)

NoPipe ==
    [orch |-> "none", pc |-> "idle", sdk |-> FALSE, main_text |-> 0, tweets |-> 0,
     searches |-> 0, completions |-> 0, images |-> 0,
     sresp |-> NoSResp, live |-> <<>>, cresp |-> NoCResp,
     call |-> Ret(FALSE, NoExc, NoContent), parsed |-> FALSE,
     cr |-> NoConsensus, prompt |-> NoLen, img |-> "none",
     analysis |-> NoAResult, reply |-> NoReply]

\* the except clause of the orchestrator the request runs in
orch_except(orch, e) ==
    IF orch = "serverless" THEN serverless_except(e) ELSE route_except(e)

\* the request model FastAPI validates the body against before the route runs
request_validator(orch, url) ==
    CASE orch = "main_analyze" -> ThreadRequest_validate_twitter_url(url)
      [] orch = "main_extract" -> ThreadExtractionRequest_validate_twitter_url(url)
      [] OTHER -> [raised |-> FALSE, exc |-> NoExc, value |-> url]

\* GrokService.analyze_thread has raised e, or an orchestrator has
Fail(pp, e) ==
    [pp EXCEPT !.pc = "done", !.analysis = AResult("err", NoConsensus, e),
               !.reply = orch_except(pp.orch, e)]

\* GrokService.analyze_thread returns (lines 476-501) and the orchestrator
\* sends the result; the route /api/analyze-thread first writes its metadata
\* into the object analyze_thread returned
Succeed(pp, cr, meme_url) ==
    LET live_context == live_context_len(pp.live)
        returned == [cr EXCEPT !.live_search_results = pp.live,
                               !.enhanced_context = enhanced_context(live_context),
                               !.peace_meme_url = meme_url,
                               !.confidence_score = final_confidence(@),
                               !.metadata = metadata_update(@, analyze_metadata)]
        result == IF pp.orch = "main_analyze"
                  THEN [returned EXCEPT !.metadata = metadata_update(@, route_metadata)]
                  ELSE returned
    IN  [pp EXCEPT !.pc = "done", !.analysis = AResult("ok", result, NoExc),
                   !.reply = Reply(200, TRUE, NoExc)]

SearchResponses ==
    {SResp(st, "none", 0, 0, 0) : st \in {429, 500, 0}}
    \cup {SResp(200, sh, 0, 0, 0) :
            sh \in {"not_json", "no_choices", "null_content", "bad_items",
                    "no_brace", "bad_json"}}
    \cup {SResp(200, "results", n, tl, sl) :
            n \in {0, 1, SearchHits}, tl \in {0, TitleLen}, sl \in {0, SnippetLen}}

HandleLens == {NoLen, 0, ShortHandle, LongHandle}
Contents ==
    {Content(k, NoLen, NoLen, <<>>, NoScore) :
        k \in {"bad_json", "missing_key", "no_json", "missing_field", "null",
               "bad_types"}}
    \cup {Content("valid", ua, ub, [i \in 1..n |-> pl], cs) :
            ua \in HandleLens, ub \in {ShortHandle, LongHandle},
            n \in {0, 1, MaxPoints}, pl \in {ShortPoint, LongPoint},
            cs \in {NoScore, ModelConfidence}}

CompletionResponses ==
    {CResp(st, "none", NoContent) : st \in {429, 401, 404, 500, 0}}
    \cup {CResp(200, sh, NoContent) :
            sh \in {"not_json", "no_choices", "empty_choices", "no_message"}}
    \cup {CResp(200, "content", c) : c \in Contents}

\* ---------------------------------------------------------------- actions
NoIssue == [at |-> NoTime, op |-> "none"]
NoGap == [gap |-> NoTime, a |-> "none", b |-> "none"]
NotRun == [raised |-> FALSE, exc |-> NoExc, value |-> <<>>]
NoProbe == [url |-> <<>>, parsed |-> FALSE, validated |-> FALSE,
            id |-> NotRun, v1 |-> NotRun, v2 |-> NotRun]

Script_free == <<>>
Script_429_429_200 == <<429, 429, 200>>
Script_always_429 == [i \in 1..(max_retries + 1) |-> 429]
Script(sc) ==
    CASE sc = "429_429_200" -> Script_429_429_200
      [] sc = "always_429" -> Script_always_429
      [] OTHER -> Script_free

Max(a, b) == IF a >= b THEN a ELSE b
InFlight(tasks) == Cardinality({u \in Tasks : Active(tasks[u])})

\* the event loop is idle while its coroutines wait, so a sleep ends on time:
\* the clock does not pass the wake-up time of a sleeping coroutine
Sleeping(tk) == tk.pc \in {"sleep_rl", "sleep_min", "sleep_retry"}
CanPass(nowv) == \A u \in Tasks : Sleeping(task[u]) => nowv <= task[u].wake

\* the step of coroutine t took the service from Q to w.q at time nowv
Commit(t, w, nowv, n200) ==
    /\ now' = nowv
    /\ task' = [task EXCEPT ![t] = w.tk]
    /\ monthly_usage' = w.q.monthly_usage
    /\ rate_limit_remaining' = w.q.rate_limit_remaining
    /\ rate_limit_reset_time' = w.q.rate_limit_reset_time
    /\ last_request_time' = w.q.last_request_time
    /\ successes' = successes + n200
    /\ prev_issue' = IF w.issued THEN [at |-> nowv, op |-> w.tk.op] ELSE prev_issue
    /\ last_gap' = IF w.issued /\ prev_issue.at # NoTime
                   THEN [gap |-> nowv - prev_issue.at, a |-> prev_issue.op, b |-> w.tk.op]
                   ELSE last_gap
    /\ peak' = Max(peak, InFlight([task EXCEPT ![t] = w.tk]))
    /\ UNCHANGED <<scenario, probe>>

\* the operations the FastAPI routes of api/main.py run on the shared instance
AppOps == {"extract", "usage_stats"}

\* a caller invokes one of the operations ops of the service; limit bounds
\* the number of invocations of a run
Invoke(t, ops, limit) ==
    /\ ~Active(task[t])
    /\ calls < limit
    /\ \E op \in ops, url \in UrlInputs, d \in {0, IdleGap} :
          /\ op \notin {"extract", "text_only"} => url = Url_good
          /\ CanPass(now + d)
          /\ LET tk == [NoTask EXCEPT !.op = op, !.url = url, !.q0 = Q, !.q1 = Q]
             IN  Commit(t, begin(tk, Q, now + d), now + d, 0)
    /\ calls' = calls + 1
    /\ UNCHANGED <<mock, pipe>>

\* a request handler of the application starts, whatever else is running;
\* each handler serves one request, and the handlers being alike they are
\* numbered in the order they start
Start(t) ==
    /\ task[t].pc = "idle"
    /\ \A u \in Tasks : u < t => task[u].pc # "idle"
    /\ Invoke(t, AppOps, NTasks)

\* a single caller runs the application's operations one after the other
StartSeq(t) ==
    /\ t = 1
    /\ Invoke(t, AppOps, MaxCalls)

\* a single caller runs any operations of the service one after the other
StartLib(t) ==
    /\ t = 1
    /\ Invoke(t, Ops, LibCalls)

\* asyncio.sleep returns when the delay asked for has passed
Wake(t) ==
    /\ Sleeping(task[t])
    /\ CanPass(task[t].wake)
    /\ LET nowv == Max(now, task[t].wake)
       IN  Commit(t, resume(task[t], Q, nowv), nowv, 0)
    /\ UNCHANGED <<calls, mock, pipe>>

\* the upstream answers the request of coroutine t (or the request times out)
Respond(t) ==
    /\ task[t].pc = "request"
    /\ \E d \in {MaxLatency} :
       \E r \in Responses(task[t], now + d) :
          /\ Relevant(task[t], r)
          /\ CanPass(now + d)
          /\ mock # <<>> => r.status = Head(mock) /\ (r.status = 200 => r.body = "data")
          /\ Commit(t, on_response(task[t], Q, r, now + d), now + d,
                    IF r.status = 200 THEN 1 ELSE 0)
    /\ mock' = IF mock # <<>> THEN Tail(mock) ELSE mock
    /\ UNCHANGED <<calls, pipe>>

\* the service as constructed, or as 94 earlier successful calls left it
InitQuotas ==
    {FreshQuota,
     Quota(PriorUsage, conservative_remaining - 1, StartTime + ResetAhead,
           StartTime - LastAgo),
     Quota(PriorUsage, near_exhausted, StartTime + ResetAhead, StartTime - LastAgo)}

Init ==
    /\ now = StartTime
    /\ \E q \in InitQuotas :
          /\ monthly_usage = q.monthly_usage
          /\ rate_limit_remaining = q.rate_limit_remaining
          /\ rate_limit_reset_time = q.rate_limit_reset_time
          /\ last_request_time = q.last_request_time
          /\ successes = q.monthly_usage
          /\ prev_issue = IF q = FreshQuota THEN NoIssue
                          ELSE [at |-> q.last_request_time, op |-> "extract"]
          /\ scenario \in (IF q = FreshQuota
                           THEN {"free", "429_429_200", "always_429"} ELSE {"free"})
    /\ mock = Script(scenario)
    /\ task = [t \in Tasks |-> NoTask]
    /\ calls = 0
    /\ last_gap = NoGap
    /\ peak = 0
    /\ probe = NoProbe
    /\ pipe = NoPipe

Next == \E t \in Tasks : Start(t) \/ Wake(t) \/ Respond(t)
Spec == Init /\ [][Next]_vars

NextSeq == \E t \in Tasks : StartSeq(t) \/ Wake(t) \/ Respond(t)
SpecSeq == Init /\ [][NextSeq]_vars

NextLib == \E t \in Tasks : StartLib(t) \/ Wake(t) \/ Respond(t)
SpecLib == Init /\ [][NextLib]_vars

\* a single caller runs the operations that go through
\* _make_api_request_with_retry; the event loop runs whatever is ready
RetryOps == {"get_tweet", "get_replies"}
StartRetry(t) ==
    /\ t = 1
    /\ Invoke(t, RetryOps, LibCalls)
NextRetry == \E t \in Tasks : StartRetry(t) \/ Wake(t) \/ Respond(t)
SpecRetry == Init /\ [][NextRetry]_vars /\ WF_vars(NextRetry)

\* ------------------------------------------------ the serverless handlers
\* a request arrives at one of the serverless handlers (api/analyze-thread.py,
\* api/usage-stats.py), which serve one request at a time: the handler builds
\* an XAPIService of its own and runs the operation on it.  The service
\* variables are the fields of the instance of the request being served.  A
\* newly built instance never sleeps before its one request.
ServeSls(t) ==
    /\ t = 1
    /\ ~Active(task[t])
    /\ calls < MaxCalls
    /\ \E op \in AppOps, url \in UrlInputs, d \in {0, IdleGap} :
          /\ op = "usage_stats" => url = Url_good
          /\ LET x_service == FreshQuota
                 tk == [NoTask EXCEPT !.op = op, !.url = url,
                                      !.q0 = x_service, !.q1 = x_service]
             IN  Commit(t, begin(tk, x_service, now + d), now + d, 0)
    /\ calls' = calls + 1
    /\ UNCHANGED <<mock, pipe>>

InitSls == Init /\ Q = FreshQuota /\ scenario = "free"
NextSls == \E t \in Tasks : ServeSls(t) \/ Respond(t)
SpecSls == InitSls /\ [][NextSls]_vars

\* ------------------------------------------- one request, start to reply
\* a request arrives at an orchestrator, which runs up to the first await of
\* the extraction; the serverless handler builds its own XAPIService
StartPipe(t) ==
    /\ t = 1
    /\ pipe.pc = "idle"
    /\ task[t].pc = "idle"
    /\ \E orch \in Orchestrators, url \in UrlInputs, sdk \in BOOLEAN :
          LET v == request_validator(orch, url)
              pp == [pipe EXCEPT !.orch = orch, !.sdk = sdk, !.main_text = MainTextLen]
              q == IF orch = "serverless" THEN FreshQuota ELSE Q
              tk == [NoTask EXCEPT !.op = "extract", !.url = url, !.q0 = q, !.q1 = q]
          IN  IF v.raised
              THEN /\ pipe' = [pp EXCEPT !.pc = "done", !.reply = Reply(422, FALSE, v.exc)]
                   /\ UNCHANGED <<now, svc, task, scenario, ghost, probe>>
              ELSE /\ pipe' = [pp EXCEPT !.pc = "extracting"]
                   /\ Commit(t, begin(tk, q, now), now, 0)
    /\ calls' = calls + 1
    /\ UNCHANGED mock

\* the extraction has ended: the orchestrator goes on to the analysis, whose
\* first await is the live-search request, or replies
AfterExtract ==
    /\ pipe.pc = "extracting"
    /\ task[1].pc = "done"
    /\ LET res == task[1].res IN
       pipe' =
         IF res.kind = "err"
         THEN [pipe EXCEPT !.pc = "done", !.reply = orch_except(pipe.orch, res.exc)]
         ELSE IF pipe.orch = "main_extract"
         THEN [pipe EXCEPT !.pc = "done", !.tweets = res.val.n,
                           !.reply = Reply(200, TRUE, NoExc)]
         ELSE IF pipe.orch = "main_analyze" /\ res.val.n < min_tweets
         THEN [pipe EXCEPT !.pc = "done", !.tweets = res.val.n,
                           !.reply = route_except(HTTPException_too_few)]
         ELSE [pipe EXCEPT !.pc = "search", !.tweets = res.val.n, !.searches = @ + 1]
    /\ UNCHANGED <<now, svc, task, calls, mock, scenario, ghost, probe>>

\* the live-search request is answered; the analysis request follows
SearchRespond ==
    /\ pipe.pc = "search"
    /\ \E r \in SearchResponses :
          pipe' = [pipe EXCEPT
                     !.pc = "completion", !.sresp = r,
                     !.live = grok_live_search(r, search_query_len(pipe.main_text),
                                               search_max_results),
                     !.completions = @ + 1]
    /\ UNCHANGED <<now, svc, task, calls, mock, scenario, ghost, probe>>

\* the analysis request is answered: call_grok_api, parse_grok_response and
\* generate_peace_meme up to the call of the image backend
CompletionRespond ==
    /\ pipe.pc = "completion"
    /\ \E r \in CompletionResponses :
          LET c == call_grok_api(r)
              pr == parse_grok_response(c.value)
              mp == meme_prompt(pr.value)
              pp == [pipe EXCEPT !.cresp = r, !.call = c]
              pq == [pp EXCEPT !.parsed = TRUE, !.cr = pr.value]
          IN  pipe' =
                IF c.raised THEN Fail(pp, analyze_thread_except(c.exc))
                ELSE IF pr.raised THEN Fail(pp, analyze_thread_except(pr.exc))
                ELSE IF ~pipe.sdk THEN Succeed(pq, pr.value, "None")
                ELSE IF mp.raised THEN Fail(pq, analyze_thread_except(mp.exc))
                ELSE [pq EXCEPT !.pc = "image", !.prompt = mp.value, !.images = @ + 1]
    /\ UNCHANGED <<now, svc, task, calls, mock, scenario, ghost, probe>>

\* the image backend answers, raises, or answers without a URL
ImageRespond ==
    /\ pipe.pc = "image"
    /\ \E img \in ImageOutcomes :
          pipe' = Succeed([pipe EXCEPT !.img = img], pipe.cr, image_sample(img))
    /\ UNCHANGED <<now, svc, task, calls, mock, scenario, ghost, probe>>

\* the shared service as constructed or as earlier calls left it
InitPipe ==
    /\ Init
    /\ scenario = "free"
    /\ rate_limit_remaining > near_exhausted

NextPipe ==
    \/ \E t \in Tasks : StartPipe(t) \/ Wake(t) \/ Respond(t)
    \/ AfterExtract
    \/ SearchRespond
    \/ CompletionRespond
    \/ ImageRespond
SpecPipe == InitPipe /\ [][NextPipe]_vars

\* --------------------------------- the parsers applied to arbitrary strings
ParseId ==
    /\ ~probe.parsed
    /\ probe' = [probe EXCEPT !.parsed = TRUE, !.id = extract_thread_id(probe.url)]
    /\ UNCHANGED <<now, svc, task, calls, mock, scenario, ghost, pipe>>

Validate ==
    /\ ~probe.validated
    /\ probe' = [probe EXCEPT !.validated = TRUE,
                              !.v1 = ThreadRequest_validate_twitter_url(probe.url),
                              !.v2 = ThreadExtractionRequest_validate_twitter_url(probe.url)]
    /\ UNCHANGED <<now, svc, task, calls, mock, scenario, ghost, pipe>>

InitUrl ==
    /\ now = StartTime
    /\ monthly_usage = 0
    /\ rate_limit_remaining = conservative_remaining
    /\ rate_limit_reset_time = 0
    /\ last_request_time = 0
    /\ successes = 0
    /\ prev_issue = NoIssue
    /\ scenario = "free"
    /\ mock = Script_free
    /\ task = [t \in Tasks |-> NoTask]
    /\ calls = 0
    /\ last_gap = NoGap
    /\ peak = 0
    /\ \E u \in UrlUniverse : probe = [NoProbe EXCEPT !.url = u]
    /\ pipe = NoPipe

NextUrl == ParseId \/ Validate
SpecUrl == InitUrl /\ [][NextUrl]_vars

\* ------------------------------------ parse_grok_response on a text
\* The text of a completion is a sequence of tokens: "ws" is a run of
\* whitespace, "fence" the three backquotes of a code fence, "json" the tag of a
\* fence, "prose" a run of
\* words without braces, "{" and "}" the braces of JSON objects, "null" the
\* JSON null, and a key stands for the member of that name: for '"key": {...}'
\* when an object follows it, for '"key": null' when "null" follows it, and
\* otherwise for the key with a value of the type the schema asks for.
JsonKeys == {"sideA", "sideB", "consensus", "title", "points", "username"}

\* str.strip
RECURSIVE lstrip(_)
lstrip(ts) == IF ts # <<>> /\ Head(ts) = "ws" THEN lstrip(Tail(ts)) ELSE ts
RECURSIVE rstrip(_)
rstrip(ts) ==
    IF ts # <<>> /\ ts[Len(ts)] = "ws" THEN rstrip(SubSeq(ts, 1, Len(ts) - 1)) ELSE ts
strip(ts) == rstrip(lstrip(ts))

\* str.find: the index, counted from 0, or -1
Positions(ts, tok) == {i \in 1..Len(ts) : ts[i] = tok}
find_mut(ts, tok) == 0
find(ts, tok) ==
    IF Positions(ts, tok) = {} THEN 0 - 1
    ELSE (CHOOSE i \in Positions(ts, tok) : \A j \in Positions(ts, tok) : i <= j) - 1

\* str.rfind
rfind(ts, tok) ==
    IF Positions(ts, tok) = {} THEN 0 - 1
    ELSE (CHOOSE i \in Positions(ts, tok) : \A j \in Positions(ts, tok) : i >= j) - 1
\* ts[a:b] for indices that are not negative
Slice(ts, a, b) == SubSeq(ts, a + 1, b)

\* decoded JSON values: a string or list, null, or an object with its members
JStr == [t |-> "str", m |-> <<>>]
JNull == [t |-> "null", m |-> <<>>]
JObj(m) == [t |-> "obj", m |-> m]
Put(m, k, v) == [x \in DOMAIN m \cup {k} |-> IF x = k THEN v ELSE m[x]]
Parsed(ok, val, next) == [ok |-> ok, val |-> val, next |-> next]
NotParsed == Parsed(FALSE, <<>>, 0)

\* json.loads on the tokens of an object: the members from position i on, up
\* to the closing brace
RECURSIVE ParseMembers(_, _, _)
ParseMembers(ts, i, m) ==
    IF i > Len(ts) THEN NotParsed
    ELSE IF ts[i] = "}" THEN Parsed(TRUE, m, i + 1)
    ELSE IF ts[i] = "ws" THEN ParseMembers(ts, i + 1, m)
    ELSE IF ts[i] \notin JsonKeys THEN NotParsed
    ELSE IF i < Len(ts) /\ ts[i + 1] = "{"
    THEN LET sub == ParseMembers(ts, i + 2, <<>>) IN
         IF sub.ok THEN ParseMembers(ts, sub.next, Put(m, ts[i], JObj(sub.val)))
         ELSE NotParsed
    ELSE IF i < Len(ts) /\ ts[i + 1] = "null"
    THEN ParseMembers(ts, i + 2, Put(m, ts[i], JNull))
    ELSE ParseMembers(ts, i + 1, Put(m, ts[i], JStr))
\* json.loads: whitespace, one object, whitespace
json_loads(ts) ==
    LET body == strip(ts)
        obj == IF body # <<>> /\ Head(body) = "{"
               THEN ParseMembers(body, 2, <<>>) ELSE NotParsed
    IN  IF obj.ok /\ obj.next = Len(body) + 1 THEN obj ELSE NotParsed

Msg_missing == "Missing required field: "
Msg_not_subscriptable == "string indices must be integers"
\* str(KeyError(k))
KeyRepr(k) ==
    CASE k = "title" -> Msg_key_title
      [] k = "points" -> "'points'"
      [] k = "sideA" -> "'sideA'"
      [] k = "sideB" -> "'sideB'"
      [] OTHER -> "'consensus'"
\* data[k] of a dictionary: the value, or the KeyError
subscript(data, k) ==
    IF k \in DOMAIN data THEN Ret(FALSE, NoExc, data[k])
    ELSE Ret(TRUE, Exc("KeyError", 0, <<KeyRepr(k)>>), JNull)

\* the first of the required fields that data lacks, or "none" (lines 384-388)
required_fields == <<"sideA", "sideB", "consensus">>
missing_field_mut(data) == "none"
missing_field(data) ==
    IF \A i \in DOMAIN required_fields : required_fields[i] \in DOMAIN data
    THEN "none"
    ELSE required_fields[CHOOSE i \in DOMAIN required_fields :
                            /\ required_fields[i] \notin DOMAIN data
                            /\ \A j \in 1..(i - 1) : required_fields[j] \in DOMAIN data]

\* ViewpointSide(title=side["title"], points=side["points"],
\*               username=side.get("username")) (lines 391-401)
Side(title, points, username) ==
    [title |-> title, points |-> points, username |-> username]
NoSide == Side("None", "None", "None")
ViewpointSide(got) ==
    LET side == got.value IN
    IF got.raised THEN Ret(TRUE, got.exc, NoSide)
    ELSE IF side.t # "obj"
    THEN Ret(TRUE, Exc("TypeError", 0, <<Msg_not_subscriptable>>), NoSide)
    ELSE IF "title" \notin DOMAIN side.m
    THEN Ret(TRUE, Exc("KeyError", 0, <<KeyRepr("title")>>), NoSide)
    ELSE IF "points" \notin DOMAIN side.m
    THEN Ret(TRUE, Exc("KeyError", 0, <<KeyRepr("points")>>), NoSide)
    ELSE IF side.m["title"] # JStr \/ side.m["points"] # JStr
               \/ ("username" \in DOMAIN side.m /\ side.m["username"].t = "obj")
    THEN Ret(TRUE, Exc("ValidationError", 0, <<Msg_validation>>), NoSide)
    ELSE Ret(FALSE, NoExc,
             Side("str", "list",
                  IF "username" \in DOMAIN side.m /\ side.m["username"] = JStr
                  THEN "str" ELSE "None"))

\* what parse_grok_response returns: the two sides and the consensus list
Sides(sideA, sideB, consensus) ==
    [sideA |-> sideA, sideB |-> sideB, consensus |-> consensus]
NoSides == Sides(NoSide, NoSide, "None")

\* the except clauses of parse_grok_response (lines 420-429)
parse_except(e) ==
    IF e.type = "JSONDecodeError" THEN Exc("Exception", 0, <<Msg_parse_json>>)
    ELSE IF e.type = "KeyError" THEN Wrap(Pre_invalid_format, e)
    ELSE Wrap(Pre_parse, e)

\* GrokService.parse_grok_response on the text of a completion (lines 361-429)
parse_grok_response_text(response_content) ==
    LET stripped == strip(response_content)
        unfenced == IF Len(stripped) >= 2 /\ stripped[1] = "fence" /\ stripped[2] = "json"
                    THEN SubSeq(stripped, 3, Len(stripped)) ELSE stripped
        content == IF unfenced # <<>> /\ unfenced[Len(unfenced)] = "fence"
                   THEN SubSeq(unfenced, 1, Len(unfenced) - 1) ELSE unfenced
        start_idx == find(content, "{")
        end_idx == rfind(content, "}") + 1
        found == start_idx # 0 - 1 /\ end_idx # 0 - 1
        loaded == json_loads(Slice(content, start_idx, end_idx))
        data == loaded.val
        missing == missing_field(data)
        side_a == ViewpointSide(subscript(data, "sideA"))
        side_b == ViewpointSide(subscript(data, "sideB"))
        consensus == subscript(data, "consensus")
    IN  IF ~found
        THEN Ret(TRUE, parse_except(Exc("ValueError", 0, <<Msg_no_json>>)), NoSides)
        ELSE IF ~loaded.ok THEN Ret(TRUE, parse_except(JSONDecodeError), NoSides)
        ELSE IF missing # "none"
        THEN Ret(TRUE, parse_except(Exc("ValueError", 0, <<Msg_missing, missing>>)),
                 NoSides)
        ELSE IF side_a.raised THEN Ret(TRUE, parse_except(side_a.exc), NoSides)
        ELSE IF side_b.raised THEN Ret(TRUE, parse_except(side_b.exc), NoSides)
        ELSE IF consensus.raised THEN Ret(TRUE, parse_except(consensus.exc), NoSides)
        ELSE IF consensus.value # JStr
        THEN Ret(TRUE, parse_except(Exc("ValidationError", 0, <<Msg_validation>>)),
                 NoSides)
        ELSE Ret(FALSE, NoExc, Sides(side_a.value, side_b.value, "list"))

\* JSON objects as the model may write them: each of the three fields left
\* out or present in one of several forms
Member(key, form) ==
    CASE form = "absent" -> <<>>
      [] form = "full" -> <<key, "{", "title", "points", "username", "}">>
      [] form = "no_username" -> <<key, "{", "title", "points", "}">>
      [] form = "no_title" -> <<key, "{", "points", "}">>
      [] form = "no_points" -> <<key, "{", "title", "}">>
      [] form = "null" -> <<key, "null">>
      [] OTHER -> <<key>>
Payload(a, b, c) ==
    <<"{">> \o Member("sideA", a) \o Member("sideB", b) \o Member("consensus", c)
        \o <<"}">>
PayloadForms ==
    {"absent", "full", "no_username", "no_title", "plain"}
        \X {"absent", "full", "no_points"} \X {"absent", "plain", "null"}
PayloadKeys(f) ==
    {k \in {"sideA", "sideB", "consensus"} :
        \/ k = "sideA" /\ f[1] # "absent"
        \/ k = "sideB" /\ f[2] # "absent"
        \/ k = "consensus" /\ f[3] # "absent"}

\* a payload alone, between whitespace, in a code fence with or without the
\* json tag, with prose that has no braces around it
Wrappers == {"alone", "spaced", "fence_json", "fence_plain", "spaced_fence",
             "prose_fence", "prose", "open_fence"}
Wrapped(w, j) ==
    CASE w = "alone" -> j
      [] w = "spaced" -> <<"ws">> \o j \o <<"ws">>
      [] w = "fence_json" -> <<"fence", "json", "ws">> \o j \o <<"ws", "fence">>
      [] w = "fence_plain" -> <<"fence", "ws">> \o j \o <<"ws", "fence">>
      [] w = "spaced_fence" -> <<"ws", "fence", "json", "ws">> \o j \o <<"ws", "fence", "ws">>
      [] w = "prose_fence" ->
            <<"prose", "ws", "fence", "json", "ws">> \o j \o <<"ws", "fence", "ws", "prose">>
      [] w = "prose" -> <<"prose", "ws">> \o j \o <<"ws", "prose">>
      [] OTHER -> <<"fence", "json", "ws">> \o j

\* an input of the parser: the text, and the payload it was written from
TextInput(text, payload, keys, wrapper) ==
    [text |-> text, payload |-> payload, keys |-> keys, wrapper |-> wrapper,
     parsed |-> FALSE, result |-> Ret(FALSE, NoExc, NoSides)]
\* texts from which no JSON object can be isolated
BrokenTexts ==
    {<<>>, <<"ws">>, <<"prose">>, <<"fence", "json", "ws", "fence">>, <<"{">>, <<"}">>,
     <<"}", "ws", "{">>, <<"{", "prose", "}">>, <<"{", "}", "prose", "{", "}">>}
    \cup {SubSeq(Payload(f[1], f[2], f[3]), 1, Len(Payload(f[1], f[2], f[3])) - 1) :
            f \in PayloadForms}
TextInputs ==
    {TextInput(Wrapped(w, Payload(f[1], f[2], f[3])), Payload(f[1], f[2], f[3]),
               PayloadKeys(f), w) : w \in Wrappers, f \in PayloadForms}
    \cup {TextInput(t, <<>>, {}, "broken") : t \in BrokenTexts}

ParseText ==
    /\ ~probe.parsed
    /\ probe' = [probe EXCEPT !.parsed = TRUE,
                              !.result = parse_grok_response_text(probe.text)]
    /\ UNCHANGED <<now, svc, task, calls, mock, scenario, ghost, pipe>>

\* ------------------------------ the snapshot built from a response body
\* the ids of the users the upstream may include, the handle of each, and the
\* ids an author_id may hold ("u9" is never included)
UserIds == {"u1", "u2", "u3"}
Handle(id) == CASE id = "u1" -> "al_1" [] id = "u2" -> "bo" [] OTHER -> "cy"
AuthorIds == UserIds \cup {"u9"}

TwitterUser(id, username) == [id |-> id, username |-> username]
\* None, as users.get returns it
NoUser == TwitterUser("None", "None")

\* the referenced_tweets of a post: None, or the list of the type of each
\* reference (ref.get("type"))
NoRefs == <<"None">>
RefLists ==
    {NoRefs, <<"quoted">>, <<"replied_to">>, <<"retweeted">>, <<"replied_to", "quoted">>}
\* a post as the upstream sends it, and the Tweet the service makes of it
TweetData(id, author_id, referenced_tweets) ==
    [id |-> id, author_id |-> author_id, referenced_tweets |-> referenced_tweets]
Tweet(id, author_id, author_username, referenced_tweets) ==
    [id |-> id, author_id |-> author_id, author_username |-> author_username,
     referenced_tweets |-> referenced_tweets]

\* a decoded response body: the main post, the users and the referenced
\* posts of includes
Body(main_tweet_data, user_ids, tweets) ==
    [data |-> main_tweet_data, includes |-> [users |-> user_ids, tweets |-> tweets]]
SeqsUpTo(S, n) == UNION {[1..k -> S] : k \in 0..n}
\* the id of the main post, the ids of the posts of a body whose posts are all
\* different, and the ids of the posts of a body that may repeat a post
MainId == "42"
FreshIds == <<"7", "8", "9">>
PostIds == {MainId, "7"}
\* bodies whose posts differ in their authors, resolved or not
AuthorBodies ==
    {Body(TweetData(MainId, a, NoRefs), us,
          [i \in DOMAIN ts |-> TweetData(FreshIds[i], ts[i], NoRefs)]) :
        a \in AuthorIds, us \in SUBSET UserIds, ts \in SeqsUpTo(AuthorIds, MaxRefs)}
\* bodies whose posts differ in their ids and references, and may repeat a
\* post or hold the main post
PostData ==
    {TweetData(id, a, r) : id \in PostIds, a \in {"u1", "u2"}, r \in RefLists}
ReferenceBodies ==
    {Body(TweetData(MainId, "u1", r), {"u1"}, ts) :
        r \in {NoRefs, <<"quoted">>}, ts \in SeqsUpTo(PostData, MaxIncluded)}
BodyInputs == AuthorBodies \cup ReferenceBodies

\* XAPIService._parse_users_from_includes: the dictionary of users by id
parse_users_from_includes(includes) ==
    [id \in includes.users |-> TwitterUser(id, Handle(id))]
\* dict.get
users_get(users, id) == IF id \in DOMAIN users THEN users[id] ELSE NoUser
\* user.username if user else "unknown" (lines 98, 497, 516)
author_username_mut(user) == user.username
author_username(user) == IF user # NoUser THEN user.username ELSE "unknown"

\* the Tweet built from a post of the body (lines 94-105, 493-504, 511-522)
MakeTweet(tweet_data, users) ==
    Tweet(tweet_data.id, tweet_data.author_id,
          author_username(users_get(users, tweet_data.author_id)),
          tweet_data.referenced_tweets)

\* XAPIService._parse_referenced_tweets: the dictionary of the posts of
\* includes by id, where a later post replaces an earlier one of the same id
parse_referenced_tweets_mut(includes, users) ==
    [i \in DOMAIN includes.tweets |-> MakeTweet(includes.tweets[i], users)]
parse_referenced_tweets(includes, users) ==
    LET ts == includes.tweets
        last(id) == CHOOSE i \in DOMAIN ts :
                        ts[i].id = id /\ \A j \in DOMAIN ts : ts[j].id = id => j <= i
    IN  [id \in {ts[i].id : i \in DOMAIN ts} |-> MakeTweet(ts[last(id)], users)]

\* the list a post is appended to (lines 119-133)
Categories == {"main_thread", "quote_tweets", "replies", "other"}
category_mut(tweet, main_author_id) ==
    IF tweet.referenced_tweets # NoRefs
          /\ \E i \in DOMAIN tweet.referenced_tweets : tweet.referenced_tweets[i] = "quoted"
    THEN "quote_tweets"
    ELSE IF tweet.author_id = main_author_id THEN "main_thread" ELSE "other"
category(tweet, main_author_id) ==
    LET ref_types == IF tweet.referenced_tweets = NoRefs THEN <<>>
                     ELSE tweet.referenced_tweets
        has(type) == \E i \in DOMAIN ref_types : ref_types[i] = type
    IN  IF tweet.author_id = main_author_id THEN "main_thread"
        ELSE IF ref_types # <<>>
        THEN IF has("quoted") THEN "quote_tweets"
             ELSE IF has("replied_to") THEN "replies"
             ELSE "other"
        ELSE "other"

\* XAPIService._categorize_tweets (lines 110-135)
RECURSIVE Filter(_, _, _)
Filter(tweets, main_author_id, c) ==
    IF tweets = <<>> THEN <<>>
    ELSE (IF category(Head(tweets), main_author_id) = c THEN <<Head(tweets)>> ELSE <<>>)
            \o Filter(Tail(tweets), main_author_id, c)
categorize_tweets(tweets, main_author_id) ==
    [c \in Categories |-> Filter(tweets, main_author_id, c)]

\* the list of posts extract_thread_optimized builds (lines 506-524)
all_tweets(main_tweet, includes, users) ==
    <<main_tweet>> \o
    [i \in DOMAIN includes.tweets |-> MakeTweet(includes.tweets[i], users)]

\* the ThreadData extract_thread_optimized builds from the body (lines 481-549)
ThreadData(data) ==
    LET includes == data.includes
        users == parse_users_from_includes(includes)
        referenced_tweets == parse_referenced_tweets(includes, users)
        main_tweet == MakeTweet(data.data, users)
        tweets == all_tweets(main_tweet, includes, users)
        categories == categorize_tweets(tweets, main_tweet.author_id)
    IN  [tweets |-> tweets, main_tweet |-> main_tweet,
         reply_count |-> Cardinality(DOMAIN referenced_tweets), users |-> users,
         referenced_tweets |-> referenced_tweets,
         quote_tweets |-> categories["quote_tweets"],
         reply_chain |-> categories["main_thread"]]

NoBody == Body(TweetData("None", "None", NoRefs), {}, <<>>)
\* categories: what _categorize_tweets returned to extract_thread_optimized
NoSnap == [data |-> NoBody, built |-> FALSE, snapshot |-> ThreadData(NoBody),
           categories |-> categorize_tweets(<<>>, "None")]

BuildSnapshot ==
    /\ ~probe.built
    /\ probe' = [probe EXCEPT
                    !.built = TRUE,
                    !.snapshot = ThreadData(probe.data),
                    !.categories = categorize_tweets(ThreadData(probe.data).tweets,
                                                     probe.data.data.author_id)]
    /\ UNCHANGED <<now, svc, task, calls, mock, scenario, ghost, pipe>>

InitSnap ==
    /\ now = StartTime
    /\ monthly_usage = 0
    /\ rate_limit_remaining = conservative_remaining
    /\ rate_limit_reset_time = 0
    /\ last_request_time = 0
    /\ successes = 0
    /\ prev_issue = NoIssue
    /\ scenario = "free"
    /\ mock = Script_free
    /\ task = [t \in Tasks |-> NoTask]
    /\ calls = 0
    /\ last_gap = NoGap
    /\ peak = 0
    /\ \E d \in BodyInputs : probe = [NoSnap EXCEPT !.data = d]
    /\ pipe = NoPipe

NextSnap == BuildSnapshot
SpecSnap == InitSnap /\ [][NextSnap]_vars

InitParse ==
    /\ now = StartTime
    /\ monthly_usage = 0
    /\ rate_limit_remaining = conservative_remaining
    /\ rate_limit_reset_time = 0
    /\ last_request_time = 0
    /\ successes = 0
    /\ prev_issue = NoIssue
    /\ scenario = "free"
    /\ mock = Script_free
    /\ task = [t \in Tasks |-> NoTask]
    /\ calls = 0
    /\ last_gap = NoGap
    /\ peak = 0
    /\ probe \in TextInputs
    /\ pipe = NoPipe

NextParse == ParseText
SpecParse == InitParse /\ [][NextParse]_vars

\* ================================================================ claims
Extraction(t) == task[t].op = "extract" /\ task[t].pc # "idle"
Done(t) == task[t].pc = "done"
Failed(t, msg) ==
    /\ task[t].res.kind = "err"
    /\ Cause(task[t].res.exc) = msg
\* the string contains no occurrence of the thread-URL pattern
NoPatternIn(url) == ~re_search(url).ok

\* C1: when the upstream answers the root-post request with 429, 429 and then
\* 200, the extraction succeeds and has issued exactly 3 upstream requests.
C1_RetriesThenSucceeds ==
    \A t \in Tasks :
        (/\ scenario = "429_429_200" /\ calls = 1
         /\ Extraction(t) /\ Done(t) /\ ~NoPatternIn(task[t].url))
        => (task[t].res.kind = "ok" /\ task[t].reqs = 3)

\* C2: when the upstream answers every request with 429, the extraction fails
\* with the rate-limited error after exactly 3 upstream requests.
C2_RateLimitedAfterThree ==
    \A t \in Tasks :
        (/\ scenario = "always_429" /\ calls = 1
         /\ Extraction(t) /\ Done(t) /\ ~NoPatternIn(task[t].url))
        => (Failed(t, Msg_rate_limited) /\ task[t].reqs = 3)

\* what C3 promises of an extraction that finds the monthly ceiling reached
QuotaRefusal(t) ==
    /\ Done(t)
    /\ Failed(t, Msg_monthly)
    /\ task[t].reqs = 0
    /\ task[t].sleeps = 0
    /\ task[t].q1 = task[t].q0

\* C3 as stated: every extraction started with monthly_usage >= 95 fails with
\* the quota-exceeded error, with no request, no sleep and QuotaState unchanged.
C3_AnyUrlQuotaExceeded ==
    \A t \in Tasks :
        (Extraction(t) /\ task[t].q0.monthly_usage >= monthly_stop)
        => QuotaRefusal(t)

\* C3 amended: an extraction of a string in which the thread-URL pattern occurs,
\* started with monthly_usage >= 95, fails with the quota-exceeded error, with
\* no request, no sleep and QuotaState unchanged.
C3_QuotaExceeded ==
    \A t \in Tasks :
        (/\ Extraction(t) /\ task[t].q0.monthly_usage >= monthly_stop
         /\ ~NoPatternIn(task[t].url))
        => QuotaRefusal(t)

C3_Witness ==
    \E t \in Tasks :
        /\ Extraction(t) /\ task[t].q0.monthly_usage >= monthly_stop
        /\ task[t].url = Url_good /\ QuotaRefusal(t)
        /\ task[t].q0.last_request_time > 0

\* C4: monthly_usage equals the number of upstream requests of the instance
\* that were answered with a successful (2xx) response.
C4_UsageCountsSuccesses == monthly_usage = successes

\* C5: an extraction issues at most one upstream request whatever the upstream
\* answers; a successful one has issued exactly one and raised monthly_usage by
\* exactly 1, however many posts the thread references.
C5_SingleRequest ==
    \A t \in Tasks :
        Extraction(t) =>
            /\ task[t].reqs <= 1
            /\ (Done(t) /\ task[t].res.kind = "ok") =>
                  /\ task[t].reqs = 1
                  /\ task[t].incs = 1
                  /\ task[t].res.val.n \in 1..(1 + MaxRefs)

C5_Witness ==
    \E t \in Tasks :
        /\ Extraction(t) /\ Done(t) /\ task[t].res.kind = "ok"
        /\ task[t].res.val.n = 1 + MaxRefs
        /\ task[t].reqs = 1 /\ task[t].incs = 1

\* C6: in a sequential run, the upstream requests of two consecutive extraction
\* calls are at least min_request_interval apart.
C6_MinIntervalSequential ==
    (last_gap.a = "extract" /\ last_gap.b = "extract")
        => last_gap.gap >= min_request_interval

C6_Witness ==
    /\ calls >= 2
    /\ last_gap.a = "extract" /\ last_gap.b = "extract"
    /\ last_gap.gap = min_request_interval
    /\ task[1].sleeps >= 1
    /\ rate_limit_remaining <= near_exhausted

\* C7: with extractions running as concurrent tasks on the shared instance, any
\* two upstream requests are at least min_request_interval apart.
C7_MinIntervalConcurrent ==
    last_gap # NoGap => last_gap.gap >= min_request_interval

\* C8: when NTasks extractions run concurrently and each receives a successful
\* (2xx) response, monthly_usage has increased by exactly NTasks.
C8_ConcurrentCount ==
    (/\ peak = NTasks
     /\ \A t \in Tasks : Extraction(t) /\ Done(t) /\ task[t].ok2xx = 1)
    => monthly_usage = task[1].q0.monthly_usage + NTasks

C10_AcceptsExactlyThreadUrls ==
    (probe.parsed /\ probe.validated) =>
        /\ IsThreadUrl(probe.url) =>
              (~probe.id.raised /\ probe.id.value = UrlId(probe.url))
        /\ ~probe.id.raised => IsThreadUrl(probe.url)
        /\ probe.id.raised = probe.v1.raised
        /\ probe.id.raised = probe.v2.raised

\* ------------------------------------------- claims about the orchestrators
MainRoutes == {"main_analyze", "main_extract"}
\* the request has ended because its extraction failed
ExtractionFailed ==
    /\ pipe.pc = "done"
    /\ task[1].pc = "done"
    /\ task[1].res.kind = "err"
\* what the upstream or the service made the extraction fail with
ExtractCause == Cause(task[1].res.exc)
\* the analysis of GrokService has run to its end
AnalysisEnded == pipe.pc = "done" /\ pipe.completions >= 1

\* C11: when the upstream answers the root-post request with 404, the
\* extraction issues no further request, leaves monthly_usage as it was, and
\* fails with an error that the routes of api/main.py report with status 404,
\* a status they give to no other failure of the extraction.
C11_NotFound ==
    ExtractionFailed =>
        /\ ExtractCause = StatusMsg(404) =>
              /\ task[1].reqs = 1
              /\ task[1].incs = 0
              /\ task[1].q1.monthly_usage = task[1].q0.monthly_usage
        /\ pipe.orch \in MainRoutes =>
              (pipe.reply.status = 404 <=> ExtractCause = StatusMsg(404))

C11_Witness ==
    /\ ExtractionFailed
    /\ pipe.orch = "main_analyze"
    /\ ExtractCause = StatusMsg(404)
    /\ pipe.reply.status = 404
    /\ task[1].reqs = 1
    /\ task[1].q0.monthly_usage > 0

\* the status the typed error of each kind of failure is to be reported with
ExpectedStatus(cause) ==
    CASE cause = Msg_invalid_url -> 400
      [] cause = StatusMsg(404) -> 404
      [] cause = StatusMsg(429) -> 429
      [] cause = StatusMsg(401) -> 401
      [] OTHER -> 500

\* C12: every failure of the extraction reaches the orchestrator as an error
\* of its kind: an invalid-URL failure arrives as the validation kind
\* (ValueError, mapped to 400), and the routes report each kind with its status
\* (404 not found, 429 rate-limited, 401 unauthorized, 500 otherwise).
C12_TypedErrors ==
    ExtractionFailed =>
        /\ ExtractCause = Msg_invalid_url => task[1].res.exc.type = "ValueError"
        /\ pipe.orch \in MainRoutes => pipe.reply.status = ExpectedStatus(ExtractCause)

\* C13: when the extraction fails because the upstream answered 429, the
\* analysis route and the extract-thread route answer with status 429.
C13_RateLimitedStatus ==
    (/\ ExtractionFailed
     /\ pipe.orch \in MainRoutes
     /\ ExtractCause = StatusMsg(429))
    => pipe.reply.status = 429

\* C14: when the extracted thread has fewer than 2 posts, the analysis route
\* and the serverless handler make no live-search, completion or image call and
\* reply with a 400-class status.
C14_TooFewPosts ==
    (/\ pipe.orch \in {"main_analyze", "serverless"}
     /\ pipe.tweets >= 1
     /\ pipe.tweets < min_tweets)
    => /\ pipe.searches = 0
       /\ pipe.completions = 0
       /\ pipe.images = 0
       /\ pipe.pc = "done"
       /\ pipe.reply.status \in 400..499

\* C15: GrokService.analyze_thread either returns a result with success = true
\* or raises the one analysis-failed error, Exception("Failed to analyze
\* thread: <reason>"); nothing else leaves it.
C15_OneFailureKind ==
    AnalysisEnded =>
        \/ /\ pipe.analysis.kind = "ok"
           /\ pipe.analysis.value.success
        \/ /\ pipe.analysis.kind = "err"
           /\ pipe.analysis.exc.type = "Exception"
           /\ Len(pipe.analysis.exc.msg) >= 2
           /\ Head(pipe.analysis.exc.msg) = Pre_analyze

C15_Witness ==
    /\ AnalysisEnded
    /\ pipe.analysis.kind = "err"
    /\ pipe.parsed
    /\ Cause(pipe.analysis.exc) = Msg_index
    /\ Head(pipe.analysis.exc.msg) = Pre_analyze

\* C16: grok_live_search returns the empty list whenever the search call fails
\* or its output is not the expected JSON, and every result it returns was
\* parsed from the model output.
C16_SearchSoftFails ==
    pipe.sresp # NoSResp =>
        /\ (pipe.sresp.status # 200 \/ pipe.sresp.shape # "results") => pipe.live = <<>>
        /\ \A i \in DOMAIN pipe.live : pipe.live[i].src = "parsed"

\* C17: once completion and parsing have succeeded, the analysis returns a
\* successful result whatever happens in the image step, with no image URL
\* unless the backend gave one.
C17_ImageSoftFails ==
    (pipe.pc = "done" /\ pipe.parsed) =>
        /\ pipe.analysis.kind = "ok"
        /\ pipe.analysis.value.success
        /\ pipe.img # "url" => pipe.analysis.value.peace_meme_url = "None"

\* C18: the prompt passed to the image backend is at most 1024 characters long.
C18_PromptWithinLimit ==
    pipe.images >= 1 => pipe.prompt <= prompt_limit

\* C19: in a result returned by analyze_thread, enhanced_context is None when
\* there are no live-search results, is never the empty string, and is a
\* non-empty string exactly when there are results.
C19_ContextAbsentOrNonEmpty ==
    (AnalysisEnded /\ pipe.analysis.kind = "ok") =>
        LET v == pipe.analysis.value IN
            /\ v.live_search_results = pipe.live
            /\ v.live_search_results = <<>> => v.enhanced_context = NoLen
            /\ v.enhanced_context # 0
            /\ v.enhanced_context > 0 <=> v.live_search_results # <<>>

C19_Witness ==
    /\ AnalysisEnded
    /\ pipe.analysis.kind = "ok"
    /\ Len(pipe.analysis.value.live_search_results) = search_max_results
    /\ \A i \in DOMAIN pipe.live : pipe.live[i].title = 0 /\ pipe.live[i].snippet = 0
    /\ pipe.analysis.value.enhanced_context > 0

\* C20: call_grok_api returns content only for a 200 response with a non-empty
\* choices list; it raises the rate-limited message on 429, the
\* invalid-credentials message on 401, the API-error message on any other error
\* status, and raises too when the choices are missing or empty.
C20_CompletionOutcome ==
    pipe.cresp # NoCResp =>
        LET r == pipe.cresp
            c == pipe.call
        IN  /\ ~c.raised => (r.status = 200 /\ r.shape = "content" /\ c.value = r.content)
            /\ r.status = 429 => (c.raised /\ c.exc.msg = <<Msg_rate_limited>>)
            /\ r.status = 401 => (c.raised /\ c.exc.msg = <<Msg_invalid_key>>)
            /\ r.status \in {404, 500} =>
                  (c.raised /\ c.exc.msg = <<Pre_api_error, StatusMsg(r.status)>>)
            /\ r.shape \in {"no_choices", "empty_choices"} => c.raised

C20_Witness ==
    /\ pipe.cresp.status = 429
    /\ pipe.call.raised
    /\ pipe.orch = "main_analyze"
    /\ pipe.pc = "done"
    /\ pipe.reply.status = 429

\* ------------------------------------------------ claims about QuotaState
\* C26: monthly_usage never exceeds the ceiling of 95 on a service instance,
\* also when concurrent extractions pass the pre-flight check before any of
\* them has counted its call.
C26_CeilingHolds == monthly_usage <= monthly_stop

\* the extraction of task t met a nearly exhausted window at its pre-flight
\* check (it makes one such check, with the QuotaState it started from)
MetExhaustedWindow(t) ==
    /\ Extraction(t)
    /\ ~NoPatternIn(task[t].url)
    /\ task[t].q0.monthly_usage < monthly_stop
    /\ task[t].q0.rate_limit_reset_time > task[t].ct
    /\ task[t].q0.rate_limit_remaining <= near_exhausted

QuotaCounters == <<monthly_usage, rate_limit_remaining, rate_limit_reset_time>>
\* this step is the completion of an upstream call: a response or a failure
\* arrives at the coroutine that waits for it
CallCompleted == \E t \in Tasks : task[t].pc = "request" /\ task'[t] # task[t]
\* this step is the arrival of a successful response
SuccessfulCall == CallCompleted /\ successes' = successes + 1
\* this step is the return of the pre-flight check from its wait for the reset
WindowResetWake ==
    \E t \in Tasks : task[t].pc = "sleep_rl" /\ task'[t].pc # "sleep_rl"

C28_FailuresNotCounted ==
    \A t \in Tasks :
        /\ task[t].incs <= task[t].ok2xx
        /\ Done(t) =>
              task[t].q1.monthly_usage = task[t].q0.monthly_usage + task[t].incs
        /\ (task[t].op \in RetryOps /\ Done(t) /\ task[t].ok2xx = 1) => task[t].incs = 1
        /\ (task[t].op \in RetryOps /\ task[t].ok2xx = 0) =>
              monthly_usage = task[t].q0.monthly_usage

C28_Witness ==
    \E t \in Tasks :
        /\ task[t].op = "get_tweet"
        /\ Done(t)
        /\ task[t].res.kind = "ok"
        /\ task[t].attempt = max_retries - 1
        /\ task[t].reqs = max_retries
        /\ task[t].ok2xx = 1
        /\ task[t].incs = 1
        /\ monthly_usage = task[t].q0.monthly_usage + 1

\* C30: whatever the upstream answers, _make_api_request_with_retry sends at
\* most 3 requests, one per attempt of a budget of 3 that every kind of failure
\* draws on, and comes to an end, returning or raising.
C30_RetryTerminates ==
    /\ [](\A t \in Tasks :
            task[t].op \in RetryOps =>
                /\ task[t].attempt < max_retries
                /\ task[t].reqs <= max_retries
                /\ task[t].reqs <= task[t].attempt + 1)
    /\ \A t \in Tasks : Active(task[t]) ~> Done(t)

C30_Witness ==
    \E t \in Tasks :
        /\ task[t].op = "get_replies"
        /\ Done(t)
        /\ Failed(t, Msg_rate_limited)
        /\ task[t].reqs = max_retries
        /\ task[t].sleeps >= max_retries - 1
        /\ task[t].incs = 0

\* C25: the usage statistics a request reads are those the process has
\* accumulated: a usage-stats request served after N successful upstream calls
\* reports monthly_usage = N.
C25_StatsAccumulate ==
    \A t \in Tasks :
        (task[t].op = "usage_stats" /\ Done(t)) => task[t].res.val.n = successes

\* ------------------------------------------ claims about the parsed result
\* C23: when analyze_thread has returned, and when the route has written its
\* metadata, the result has success set and carries the two sides and the
\* consensus list exactly as parse_grok_response built them, whatever the
\* live-search and image steps did, and every metadata key parse_grok_response
\* wrote is still there.
C23_ParsedFieldsKept ==
    pipe.analysis.kind = "ok" =>
        /\ pipe.parsed
        /\ pipe.analysis.value.success
        /\ pipe.cr.success
        /\ pipe.analysis.value.ua = pipe.cr.ua
        /\ pipe.analysis.value.ub = pipe.cr.ub
        /\ pipe.analysis.value.consensus = pipe.cr.consensus
        /\ pipe.cr.ua = pipe.call.value.ua
        /\ pipe.cr.ub = pipe.call.value.ub
        /\ pipe.cr.consensus = pipe.call.value.consensus
        /\ pipe.cr.metadata \subseteq pipe.analysis.value.metadata
        /\ {"tweet_count", "meme_suggestion"} \subseteq pipe.analysis.value.metadata

C23_Witness ==
    /\ pipe.analysis.kind = "ok"
    /\ pipe.orch = "main_analyze"
    /\ pipe.live = <<>>
    /\ pipe.img = "exception"
    /\ Len(pipe.analysis.value.consensus) = MaxPoints
    /\ pipe.analysis.value.ua = ShortHandle
    /\ "thread_url" \in pipe.analysis.value.metadata

\* ------------------------------------------------ claims about the snapshot
\* the posts of a snapshot: the main post, the posts of the list and those of
\* the dictionary of referenced posts
SnapshotPosts(sn) ==
    {sn.main_tweet} \cup {sn.tweets[i] : i \in DOMAIN sn.tweets}
        \cup {sn.referenced_tweets[i] : i \in DOMAIN sn.referenced_tweets}

\* C24: in the snapshot built from any response body, a post whose author_id
\* is in the snapshot's users map has that user's handle as author_username,
\* every other post has "unknown", and a snapshot is built whether or not the
\* authors resolve.
C24_AuthorResolvedOrUnknown ==
    probe.built =>
        /\ Len(probe.snapshot.tweets) = 1 + Len(probe.data.includes.tweets)
        /\ \A p \in SnapshotPosts(probe.snapshot) :
              IF p.author_id \in DOMAIN probe.snapshot.users
              THEN p.author_username = probe.snapshot.users[p.author_id].username
              ELSE p.author_username = "unknown"

C24_Witness ==
    /\ probe.built
    /\ probe.data.includes.users = {"u1"}
    /\ probe.snapshot.main_tweet = Tweet(MainId, "u9", "unknown", NoRefs)
    /\ probe.snapshot.tweets =
          <<Tweet(MainId, "u9", "unknown", NoRefs), Tweet("7", "u1", "al_1", NoRefs)>>

\* ------------------------------------- claims about parse_grok_response
\* the first of sideA, sideB, consensus that the payload of the input lacks
FirstMissing(keys) ==
    IF "sideA" \notin keys THEN "sideA"
    ELSE IF "sideB" \notin keys THEN "sideB" ELSE "consensus"

\* C21: parse_grok_response returns a result only for a text whose JSON
\* object has sideA, sideB and consensus; when one of them is missing it
\* raises the failure that names the first missing field, when the text holds
\* no JSON object it raises the failure that says so, and a call that raises
\* returns nothing.
C21_RequiredFields ==
    probe.parsed =>
        /\ ~probe.result.raised =>
              /\ probe.wrapper # "broken"
              /\ probe.keys = {"sideA", "sideB", "consensus"}
              /\ probe.result.value # NoSides
        /\ (probe.wrapper # "broken" /\ probe.keys # {"sideA", "sideB", "consensus"}) =>
              /\ probe.result.raised
              /\ probe.result.exc.msg = <<Pre_parse, Msg_missing, FirstMissing(probe.keys)>>
        /\ probe.wrapper = "broken" =>
              /\ probe.result.raised
              /\ Cause(probe.result.exc) \in {Msg_no_json, Msg_parse_json}
        /\ probe.result.raised => probe.result.value = NoSides

C21_Witness ==
    /\ probe.parsed
    /\ probe.wrapper = "fence_json"
    /\ probe.keys = {"sideB", "consensus"}
    /\ probe.result.raised
    /\ probe.result.exc.msg = <<Pre_parse, Msg_missing, "sideA">>

\* C22: a payload in a code fence, with or without the json tag, with
\* whitespace or prose without braces around it, parses to what the payload
\* alone parses to: the same sides and consensus, or the same failure.
C22_FenceTransparent ==
    (probe.parsed /\ probe.wrapper \notin {"alone", "broken"}) =>
        probe.result = parse_grok_response_text(probe.payload)

C22_Witness ==
    /\ probe.parsed
    /\ probe.wrapper = "prose_fence"
    /\ ~probe.result.raised
    /\ probe.result.value = Sides(Side("str", "list", "None"), Side("str", "list", "str"),
                                  "list")

\* ------------------------------------------- claims about failed requests
\* C31: an extraction whose upstream request met a timeout or transport
\* failure ends only when 3 requests have been sent, with sleeps of 1 s and
\* 2 s between them.
C31_TransportRetried ==
    \A t \in Tasks :
        (Extraction(t) /\ Done(t) /\ task[t].last.status = 0) =>
            /\ task[t].reqs = max_retries
            /\ task[t].delays = <<base_delay, 2 * base_delay>>

\* the helper's request in flight was sent after the helper got a 429
SentAfter429(t) ==
    /\ task[t].op \in RetryOps
    /\ task[t].pc = "request"
    /\ task[t].last.status = 429

\* C32: the request the helper sends after a 429 response goes out no sooner
\* than the response's retry-after delay (60 s without the header) after that
\* response, and no sooner than min_request_interval after the request before.
C32_RetryAfterHonoured ==
    \A t \in Tasks :
        SentAfter429(t) =>
            /\ last_request_time >=
                  task[t].last.at + (IF task[t].last.retry_after = NoHdr
                                     THEN default_retry_after
                                     ELSE task[t].last.retry_after)
            /\ prev_issue.at = last_request_time
            /\ last_gap.gap >= min_request_interval
            /\ task[t].reqs = task[t].attempt + 1

C32_Witness ==
    \E t \in Tasks :
        /\ SentAfter429(t)
        /\ task[t].last.retry_after = ShortRetryAfter
        /\ task[t].reqs = 2
        /\ task[t].sleeps = 2
        /\ last_gap.gap = min_request_interval
        /\ task[t].q0 = FreshQuota

\* C33: when the helper gets an HTTP error status other than 429, the call
\* ends with that response, without a sleep or a further request (one request
\* in all when it was the first attempt): get_tweet_by_id returns None and
\* get_thread_replies an empty list for a 404, and they raise for the rest.
C33_OtherStatusNotRetried ==
    \A t \in Tasks :
        (task[t].op \in RetryOps /\ task[t].last.status \in {404, 401, 500}) =>
            /\ Done(t)
            /\ task[t].reqs = task[t].attempt + 1
            /\ task[t].reqs = Len(task[t].delays) + 1
            /\ task[t].wake <= task[t].last.at
            /\ IF task[t].last.status = 404
               THEN task[t].res =
                        Res("ok", Val(IF task[t].op = "get_tweet" THEN "None" ELSE "list",
                                      <<>>, 0), NoExc)
               ELSE /\ task[t].res.kind = "err"
                    /\ Cause(task[t].res.exc) = StatusMsg(task[t].last.status)

C33_Witness ==
    \E t \in Tasks :
        /\ task[t].op = "get_tweet"
        /\ task[t].last.status = 404
        /\ Done(t)
        /\ task[t].res.val.tag = "None"
        /\ task[t].reqs = 1
        /\ task[t].sleeps = 0

\* the helper of coroutine t was called with monthly_usage at the ceiling:
\* get_thread_text_only calls it after its search request has been counted
HelperAtCeiling(t) ==
    /\ ViaRetry(task[t])
    /\ task[t].q0.monthly_usage + (IF task[t].inner THEN 1 ELSE 0) >= monthly_stop

\* C34: called with monthly_usage >= 95, the helper sends no request; the
\* quota error of its pre-flight check is retried like a transient failure,
\* so the check runs on each of 3 attempts, with sleeps of 1 s and 2 s, and
\* the error is raised after the third.
C34_QuotaErrorRetried ==
    \A t \in Tasks :
        HelperAtCeiling(t) =>
            /\ task[t].reqs = (IF task[t].inner THEN 1 ELSE 0)
            /\ task[t].pc \in {"sleep_retry", "done"}
            /\ task[t].pc = "sleep_retry" =>
                  task[t].delays = [i \in 1..(task[t].attempt + 1) |-> 2 ^ (i - 1)]
            /\ Done(t) =>
                  /\ task[t].attempt = max_retries - 1
                  /\ task[t].delays = <<1, 2>>
                  /\ task[t].res.kind = "err"
                  /\ Cause(task[t].res.exc) = Msg_monthly
                  /\ monthly_usage = task[t].q0.monthly_usage
                                        + (IF task[t].inner THEN 1 ELSE 0)

C34_Witness ==
    \E t \in Tasks :
        /\ HelperAtCeiling(t)
        /\ Done(t)
        /\ task[t].delays = <<1, 2>>
        /\ task[t].attempt = max_retries - 1
        /\ Cause(task[t].res.exc) = Msg_monthly

\* ------------------------------------------- claims about the analysis
\* the completion endpoint has answered the analysis request, and the text
\* it answered with parses
CompletionAnswered == pipe.cresp # NoCResp
CompletionFailed == CompletionAnswered /\ pipe.call.raised
ParseFailed ==
    CompletionAnswered /\ ~pipe.call.raised /\ pipe.call.value.kind # "valid"

\* C35: analyze_thread runs live search, completion call, parsing, image
\* generation and assembly in that order, each at most once: the completion
\* endpoint is called once and not again, and the image backend only after
\* a parse that succeeded.
C35_StepsInOrder ==
    /\ pipe.searches <= 1 /\ pipe.completions <= 1 /\ pipe.images <= 1
    /\ pipe.completions <= pipe.searches
    /\ pipe.images <= pipe.completions
    /\ pipe.pc = "search" => pipe.searches = 1 /\ pipe.completions = 0
    /\ pipe.pc = "completion" =>
          pipe.completions = 1 /\ ~CompletionAnswered /\ pipe.images = 0
    /\ pipe.pc = "image" => pipe.images = 1 /\ pipe.analysis = NoAResult
    /\ pipe.images = 1 =>
          CompletionAnswered /\ ~CompletionFailed /\ ~ParseFailed /\ pipe.parsed
    /\ (CompletionFailed \/ ParseFailed) =>
          /\ pipe.pc = "done"
          /\ pipe.completions = 1
          /\ pipe.images = 0
          /\ pipe.analysis.kind = "err"
    /\ pipe.analysis.kind = "ok" =>
          /\ pipe.searches = 1 /\ pipe.completions = 1
          /\ pipe.parsed
          /\ pipe.images = (IF pipe.sdk THEN 1 ELSE 0)

C35_Witness ==
    /\ pipe.pc = "done"
    /\ pipe.analysis.kind = "ok"
    /\ pipe.searches = 1
    /\ pipe.completions = 1
    /\ pipe.images = 1
    /\ pipe.img = "url"

\* ------------------------------------- claims about the posts of a snapshot
\* how often post p is in the list
Occurrences(list, p) == Cardinality({i \in DOMAIN list : list[i] = p})
HasType(p, type) ==
    /\ p.referenced_tweets # NoRefs
    /\ \E i \in DOMAIN p.referenced_tweets : p.referenced_tweets[i] = type

\* C36: _categorize_tweets puts every post in exactly one of main_thread,
\* quote_tweets, replies, other: main_thread if the root author wrote it,
\* else quote_tweets if it has a reference of type quoted, else replies if it
\* has one of type replied_to, else other; so the main post is in reply_chain
\* and not in quote_tweets.
C36_CategoriesPartition ==
    probe.built =>
        LET sn == probe.snapshot
            root == probe.data.data.author_id
            cats == probe.categories
        IN  /\ \A i \in DOMAIN sn.tweets :
                  LET p == sn.tweets[i]
                      home == IF p.author_id = root THEN "main_thread"
                              ELSE IF HasType(p, "quoted") THEN "quote_tweets"
                              ELSE IF HasType(p, "replied_to") THEN "replies"
                              ELSE "other"
                  IN  \A c \in Categories :
                          Occurrences(cats[c], p) =
                              (IF c = home THEN Occurrences(sn.tweets, p) ELSE 0)
            /\ Len(cats["main_thread"]) + Len(cats["quote_tweets"])
                  + Len(cats["replies"]) + Len(cats["other"]) = Len(sn.tweets)
            /\ sn.reply_chain = cats["main_thread"]
            /\ sn.quote_tweets = cats["quote_tweets"]
            /\ Occurrences(sn.reply_chain, sn.main_tweet) >= 1
            /\ Occurrences(sn.quote_tweets, sn.main_tweet) = 0

C36_Witness ==
    /\ probe.built
    /\ probe.data.data.referenced_tweets = <<"quoted">>
    /\ Len(probe.snapshot.tweets) = 3
    /\ probe.snapshot.reply_chain = <<probe.snapshot.main_tweet>>
    /\ probe.snapshot.quote_tweets =
          <<Tweet("7", "u2", "unknown", <<"replied_to", "quoted">>)>>
    /\ Len(probe.categories["replies"]) = 1

\* C37: no two entries of the tweets list of a snapshot have the same id.
C37_PostsDeduplicated ==
    probe.built =>
        \A i, j \in DOMAIN probe.snapshot.tweets :
            probe.snapshot.tweets[i].id = probe.snapshot.tweets[j].id => i = j

\* C38: tweets[0] of a snapshot is the main post, the entries after it are
\* the referenced posts in the order of the response, and reply_count is the
\* number of distinct ids of the referenced posts (the size of the
\* referenced_tweets map), which is at most len(tweets) - 1.
C38_MainFirstCountDistinct ==
    probe.built =>
        LET sn == probe.snapshot
            ts == probe.data.includes.tweets
        IN  /\ sn.tweets[1] = sn.main_tweet
            /\ sn.main_tweet.id = probe.data.data.id
            /\ Len(sn.tweets) = 1 + Len(ts)
            /\ \A i \in DOMAIN ts :
                  /\ sn.tweets[i + 1].id = ts[i].id
                  /\ sn.tweets[i + 1].author_id = ts[i].author_id
                  /\ sn.tweets[i + 1].referenced_tweets = ts[i].referenced_tweets
            /\ sn.reply_count = Cardinality({ts[i].id : i \in DOMAIN ts})
            /\ sn.reply_count = Cardinality(DOMAIN sn.referenced_tweets)
            /\ sn.reply_count <= Len(sn.tweets) - 1

C38_Witness ==
    /\ probe.built
    /\ Len(probe.data.includes.tweets) = 2
    /\ probe.data.includes.tweets[1].id = "7"
    /\ probe.data.includes.tweets[2].id = "7"
    /\ probe.snapshot.reply_count = 1
    /\ Len(probe.snapshot.tweets) = 3

\* C39: the confidence_score of every result analyze_thread returns is 0.85,
\* whether the model output held a confidence_score of its own or none (for
\* which the parser defaults to 0.8).
C39_ConfidenceFixed ==
    pipe.analysis.kind = "ok" =>
        /\ pipe.analysis.value.confidence_score = 85
        /\ pipe.cr.confidence_score =
              (IF pipe.call.value.confidence_score = NoScore
               THEN 80 ELSE pipe.call.value.confidence_score)

C39_Witness ==
    /\ pipe.pc = "done"
    /\ pipe.analysis.kind = "ok"
    /\ pipe.call.value.confidence_score = ModelConfidence
    /\ pipe.cr.confidence_score = ModelConfidence
    /\ pipe.analysis.value.confidence_score = display_confidence
====
